---- MODULE Spec2Model ----
(***************************************************************************)
(* hpcflow: element/run resolution, dependency cache, jobscript grouping   *)
(* and the transactional persistent store.                                 *)
(*                                                                         *)
(* Part 1 (Spec, SpecRace): the transactional store.  Two engine processes, *)
(* each holding its own Workflow object and PersistentStore, share one     *)
(* on-disk workflow.  The backend (flat JSON document or Zarr arrays plus  *)
(* root attributes) is chosen in Init.                                     *)
(* Part 2 (SpecResolve): WorkflowTask.resolve_element_data_indices.        *)
(* Part 3 (SpecCache): DependencyCache.build and get_EAR_dependencies.     *)
(* Part 4 (SpecJS): grouping a resource map into jobscripts.               *)
(* Part 5 (SpecPair): a JSON store and a Zarr store given the same         *)
(* mutations, with the steps of their commit_pending.                      *)
(* Part 6 (SpecCreate): Workflow.from_template, add_task and add_elements  *)
(* with the validation of tasks and element sets.                          *)
(* Part 7 (SpecDeps): the dependencies between jobscripts.                 *)
(* Part 8 (SpecRuns, SpecSubmit): the initialisation of the EARs of a task *)
(* and the lifecycle of the runs.                                          *)
(* Part 9 (SpecResource, SpecRetry, SpecTasks, SpecSources): a store       *)
(* resource, the retried file-system operations, tasks inserted at given   *)
(* indices, and the parameter sources of the cached JSON document.         *)
(***************************************************************************)
EXTENDS Integers, Sequences, FiniteSets, TLC

VARIABLES
    backend,        \* Workflow.store_format: "json" or "zarr"
    disk,           \* the persistent workflow document / array store
    loaded,         \* per process: JSONPersistentStore._loaded / ZarrPersistentStore._metadata
    wk_data,        \* per process: local wk_data / md of a running commit_pending
    store_pending,  \* per process: PersistentStore._pending
    wk_tasks,       \* per process: Workflow.tasks (WorkflowTask objects)
    wk_pending,     \* per process: Workflow._pending["tasks"]
    in_batch_mode,  \* per process: Workflow._in_batch_mode
    scopes,         \* per process: stack of active batch_update scopes
    pc,             \* per process: "run" or "write" (between the read and the dump of a commit)
    err,            \* per process: outcome of the last scope exit or store call
    made,           \* per process: number of task templates created so far
    snap,           \* per process: what the workflow held when the current batch began
    dirty,          \* per process: another process wrote the disk since the batch began
    stale,          \* per process: another process wrote the disk since the Workflow was loaded
    acked,          \* task templates whose commit completed
    batches,        \* number of batches begun so far
    oob             \* number of calls completed by the other engine process

VARIABLES
    multiplicities,   \* the multiplicity records of the element set being resolved
    multi_srt_grp,    \* the nesting-order groups still to be combined
    element_dat_idx,  \* the elements resolved so far: dicts from path to value index
    resolve_pc        \* "idle", "call", "loop", "done" or "ValueError"

storeVars == << backend, disk, loaded, wk_data, store_pending, wk_tasks, wk_pending,
                in_batch_mode, scopes, pc, err, made, snap, dirty, stale, acked,
                batches, oob >>

VARIABLES
    all_data_idx,       \* per run: the parameter indices of its data_idx
    all_param_sources,  \* per parameter index: its source
    all_iter_run_IDs,   \* per iteration: the IDs of its runs
    all_elem_iter_IDs,  \* per element: the IDs of its iterations
    dep_cache,          \* the DependencyCache that build returned
    EAR_dependencies,   \* per run asked: what get_EAR_dependencies returned
    cache_pc            \* "idle", "ready" or "built"

VARIABLES
    res_map,                \* the resource map of the task
    resource_map,           \* the grouping's own array of it
    allocated,              \* the cells already in a jobscript
    jobscripts,             \* the jobscripts of the grouping
    js_act_idx, js_res_pos, \* where the grouping's two loops are
    submission_jobscripts,  \* the jobscripts built from the grouping
    js_pc                   \* "idle", "loop", "return", "grouped" or "done"

VARIABLES
    stores,         \* per backend: the workflow on disk
    pendings,       \* per backend: PersistentStore._pending
    commit_doc,     \* per backend: wk_data / md of a running commit_pending
    commit_pos,     \* 0, or the position of the running commits in their bucket lists
    flushed,        \* per backend: the buckets handled by the commit since the last call
    initialised,    \* the iterations whose EARs have been initialised (committed, pending)
    num_ops         \* mutations and batch ends so far

pairVars == << stores, pendings, commit_doc, commit_pos, flushed, initialised, num_ops >>

VARIABLES
    wk_dir,         \* what is at the workflow's path: "none", "old" or "new"
    replaced_dir,   \* what is at the temporary name of a replaced workflow: "none" or "old"
    new_pending,    \* what the batch on the workflow at wk_dir has buffered
    new_disk,       \* what the workflow at wk_dir has committed
    tmpl_tasks,     \* the tasks still to be added, each by the kind of its element set
    creation,       \* is_workflow_creation of the batch
    create_pc,      \* "idle", "start", "batch", "raising", "raised" or "done"
    create_err      \* the exception raised, or "none"

createVars == << wk_dir, replaced_dir, new_pending, new_disk, tmpl_tasks, creation,
                 create_pc, create_err >>

VARIABLES
    dep_in,         \* the jobscripts of the tasks and the dependencies of their EARs
    js,             \* the list of jobscripts that resolve_jobscripts returns
    element_deps,   \* all_element_deps of _resolve_singular_jobscripts
    js_deps,        \* what resolve_jobscript_dependencies returned
    dep_pc          \* "idle", "start" or "listed"

depVars == << dep_in, js, element_deps, js_deps, dep_pc >>

VARIABLES
    schema_actions, \* the actions of the task's schema
    element_iters,  \* the iterations of the task: data_idx and EARs_initialised
    run_parameters, \* the parameters of the workflow: data (0 unset) and source
    action_EARs,    \* the runs of the workflow, in the order of their indices
    wk_submissions, \* the status of each submission of the workflow
    init_result,    \* what the last initialise_EARs returned or raised
    ever_deferred,  \* the iterations that some initialise_EARs has passed over
    run_pc          \* "idle" or "ready"

runVars == << schema_actions, element_iters, run_parameters, action_EARs, wk_submissions,
             init_result, ever_deferred, run_pc >>

VARIABLES
    sr_file,        \* what the backing resource of the StoreResource holds
    sr_data,        \* StoreResource.data: the documents open to "read" and to "update"
    sr_same,        \* data["read"] and data["update"] are one object
    sr_hash,        \* StoreResource.hash
    sr_hist,        \* the update data at open("update"); what the last close("update") did
    sr_ops          \* number of calls so far

resVars == << sr_file, sr_data, sr_same, sr_hash, sr_hist, sr_ops >>

VARIABLES
    fs_op,          \* the store operation under way: "none", "dump", "unlink" or "rmtree"
    fs_tries,       \* _tries of the retry decorator: attempts left
    fs_delay,       \* _delay of the retry decorator: the next sleep, in seconds
    fs_calls,       \* file-system calls made by the operation so far
    fs_dir,         \* the workflow directory exists
    fs_pc           \* "idle", "ready", "try", "done", "fatal", "returned" or "raised"

retryVars == << fs_op, fs_tries, fs_delay, fs_calls, fs_dir, fs_pc >>

VARIABLES
    tk_tasks,         \* Workflow.tasks, each task by the number of its add_task call
    tk_pending,       \* Workflow._pending["tasks"]: the indices of the tasks added in the batch
    tk_store_pending, \* PersistentStore._pending["tasks"]: a dict from index, in key order
    tk_disk,          \* the tasks and num_added_tasks of the persistent workflow
    tk_added,         \* number of tasks added by the batches that were committed
    tk_made,          \* number of add_task calls so far
    tk_pc             \* "idle", "ready" or "batch"

taskVars == << tk_tasks, tk_pending, tk_store_pending, tk_disk, tk_added, tk_made, tk_pc >>

VARIABLES
    ps_disk,        \* the parameter sources of the JSON document on disk
    ps_loaded,      \* JSONPersistentStore._loaded: the cached document, or none
    ps_pending,     \* _pending: parameter_sources and parameter_source_updates
    ps_err,         \* how the last batch ended
    ps_ops,         \* number of calls so far
    ps_pc           \* "idle", "ready" or "batch"

sourceVars == << ps_disk, ps_loaded, ps_pending, ps_err, ps_ops, ps_pc >>

\* the variables of Part 9
lastVars == << resVars, retryVars, taskVars, sourceVars >>

\* the variables of Part 7 and the parts after it
laterVars == << depVars, runVars, lastVars >>

resolveVars == << multiplicities, multi_srt_grp, element_dat_idx, resolve_pc >>

jsVars == << res_map, resource_map, allocated, jobscripts, js_act_idx, js_res_pos,
            submission_jobscripts, js_pc >>

cacheVars == << all_data_idx, all_param_sources, all_iter_run_IDs, all_elem_iter_IDs,
                dep_cache, EAR_dependencies, cache_pc >>

\* everything outside the store
earlierVars == << resolveVars, cacheVars, jsVars, pairVars, createVars >>

pure == << earlierVars, laterVars >>

vars == << storeVars, pure >>

----------------------------------------------------------------------------
\* Bounds of the model.
MaxTasks == 2
MaxParams == 2
MaxVal == 2
MaxElems == 1
MaxDepth == 2
MaxBatches == 2
MaxOob == 1

Procs == {1, 2}
Backends == {"json", "zarr"}

Other(p) == Procs \ {p}

----------------------------------------------------------------------------
\* Helpers on sequences and dicts.

\* dict item assignment on a dict with integer keys
DictSet(d, k, v) == [x \in DOMAIN d \cup {k} |-> IF x = k THEN v ELSE d[x]]

EmptyDict == [x \in {} |-> 0]

\* list.insert(i, x) with a 0-based index; an index past the end appends
ListInsert(s, i, x) ==
    IF i >= Len(s) THEN Append(s, x)
    ELSE SubSeq(s, 1, i) \o <<x>> \o SubSeq(s, i + 1, Len(s))

\* list.pop(i) with a 0-based index
ListPop(s, i) == SubSeq(s, 1, i) \o SubSeq(s, i + 2, Len(s))

----------------------------------------------------------------------------
\* The persistent document.  A task entry is [tmpl, iid, nelem]; the JSON
\* document keeps each task's elements inside the task entry (nelem), the Zarr
\* store keeps them in one array per insert ID (arrays) and only the template
\* and num_added_tasks in the root attributes.  Parameter data is a dict from
\* parameter index to value, 0 standing for None (unset).  The Zarr store keeps
\* the arrays of an array-valued parameter in a group of its own ("param_<idx>",
\* groups); the JSON document keeps every value inline.

\* write_empty_workflow
EmptyDoc == [tasks |-> <<>>, arrays |-> EmptyDict, num_added_tasks |-> 0,
             params |-> EmptyDict, groups |-> {}]

\* _parameter_encoders: a value that holds numpy arrays
HasArrays(v) == v > 1

\* PersistentStore._get_pending_dct
EmptyPending == [tasks |-> <<>>, elements |-> EmptyDict, parameter_data |-> EmptyDict,
                 num_parameter_data |-> 0]

\* The part of the store that cached_load caches and is_modified_on_disk hashes:
\* the whole document (JSON), the root attributes only (Zarr).
Cached(b, d) ==
    IF b = "json" THEN d
    ELSE [tasks |-> d.tasks, arrays |-> EmptyDict,
          num_added_tasks |-> d.num_added_tasks, params |-> EmptyDict, groups |-> {}]

\* JSONPersistentStore.load / ZarrPersistentStore.load_metadata
load(p) == IF loaded[p] # <<>> THEN loaded[p][1] ELSE Cached(backend, disk)

\* PersistentStore.has_pending
has_pending(p) ==
    \/ store_pending[p].tasks # <<>>
    \/ DOMAIN store_pending[p].elements # {}
    \/ DOMAIN store_pending[p].parameter_data # {}
    \/ store_pending[p].num_parameter_data > 0

\* is_modified_on_disk: compares the hash of a fresh read with that of the cache;
\* with no cache there is nothing to compare to
is_modified_on_disk(p) ==
    IF loaded[p] # <<>> THEN Cached(backend, disk) # loaded[p][1] ELSE FALSE

\* the element arrays of the Zarr store, in the order of their groups' names
GroupsInOrder(arrays) ==
    [i \in 1..Cardinality(DOMAIN arrays) |->
        arrays[CHOOSE k \in DOMAIN arrays :
                  Cardinality({j \in DOMAIN arrays : j < k}) = i - 1]]

\* get_all_tasks_metadata: the number of elements of each persistent task
get_all_tasks_metadata(p) ==
    IF backend = "json"
    THEN [i \in DOMAIN load(p).tasks |-> load(p).tasks[i].nelem]
    ELSE GroupsInOrder(disk.arrays)

\* get_num_added_tasks
get_num_added_tasks(p) == load(p).num_added_tasks + Len(store_pending[p].tasks)

\* get_parameter_data: a pending value shadows the persistent one (JSON); the
\* base array's value decoded with its array group (Zarr).  -1 stands for the
\* error raised for an index that is not there (JSON) or for an array-valued
\* parameter whose group is gone (Zarr).
get_parameter_data(p, i) ==
    IF backend = "json"
    THEN IF i \in DOMAIN store_pending[p].parameter_data
         THEN store_pending[p].parameter_data[i]
         ELSE IF i \in DOMAIN load(p).params THEN load(p).params[i] ELSE -1
    ELSE IF HasArrays(disk.params[i]) /\ i \notin disk.groups
         THEN -1 ELSE disk.params[i]

SetMax(S) == CHOOSE x \in S : \A y \in S : y <= x

\* get_all_parameter_data: get_parameter_data for every index up to max_key,
\* the largest pending index if any parameter is pending and else the largest
\* persistent one (JSON); for every index of the base array (Zarr).
\* (-1 :> -1) stands for the ValueError of max() over no keys at all.
get_all_parameter_data(p) ==
    IF backend = "json"
    THEN LET keys == IF DOMAIN store_pending[p].parameter_data # {}
                     THEN DOMAIN store_pending[p].parameter_data
                     ELSE DOMAIN load(p).params
         IN IF keys = {} THEN (-1 :> -1)
            ELSE [i \in 0..SetMax(keys) |-> get_parameter_data(p, i)]
    ELSE [i \in DOMAIN disk.params |-> get_parameter_data(p, i)]

\* is_parameter_set
is_parameter_set(p, i) ==
    IF backend = "json" THEN load(p).params[i] # 0 ELSE disk.params[i] # 0

\* What the workflow holds, as read back through the store.
ReadBack(p) == [tasks |-> get_all_tasks_metadata(p),
                num_added_tasks |-> get_num_added_tasks(p),
                params |-> get_all_parameter_data(p)]

\* get_all_tasks_metadata of a store with nothing cached
TasksMeta ==
    IF backend = "json" THEN [i \in DOMAIN disk.tasks |-> disk.tasks[i].nelem]
    ELSE GroupsInOrder(disk.arrays)

\* Workflow.tasks on first access: one WorkflowTask per entry of the tasks
\* metadata, with template.tasks[idx] as its template
LoadTasks ==
    LET tasks_meta == TasksMeta
    IN [i \in DOMAIN tasks_meta |->
           [tmpl |-> disk.tasks[i].tmpl, iid |-> disk.tasks[i].iid,
            nelem |-> tasks_meta[i], pelem |-> 0]]

----------------------------------------------------------------------------
\* Ghost bookkeeping: a write to the disk by p makes every other process's
\* in-memory copy stale and its running batch dirty.
MarkOthers(f, p) == [q \in Procs |-> IF q = p THEN f[q] ELSE TRUE]

TouchDisk(p) ==
    /\ stale' = MarkOthers(stale, p)
    /\ dirty' = MarkOthers(dirty, p)

----------------------------------------------------------------------------
\* Workflow.__init__ and the first access to Workflow.tasks: a fresh Workflow
\* object on the current disk state.
Reload(p) ==
    /\ pc[p] = "run" /\ scopes[p] = <<>>
    /\ stale[p] \/ in_batch_mode[p] \/ has_pending(p)
    /\ Len(TasksMeta) <= Len(disk.tasks)       \* else template.tasks[idx] raises
    /\ wk_tasks' = [wk_tasks EXCEPT ![p] = LoadTasks]
    /\ wk_pending' = [wk_pending EXCEPT ![p] = <<>>]
    /\ store_pending' = [store_pending EXCEPT ![p] = EmptyPending]
    /\ in_batch_mode' = [in_batch_mode EXCEPT ![p] = FALSE]
    /\ loaded' = [loaded EXCEPT ![p] = <<>>]
    /\ stale' = [stale EXCEPT ![p] = FALSE]
    /\ err' = [err EXCEPT ![p] = "none"]
    /\ UNCHANGED << pure, backend, disk, wk_data, scopes, pc, made, snap, dirty, acked, batches, oob >>

\* Entering `with batch_update()`, preceded by `with cached_load()` when cached
\* (Workflow.add_task, add_loop, submit, save_parameter...) and alone otherwise
\* (WorkflowTask.add_elements, direct use).
Enter(p, cached) ==
    /\ pc[p] = "run" /\ Len(scopes[p]) < MaxDepth
    /\ scopes[p] = <<>> => batches < MaxBatches
    /\ batches' = IF scopes[p] = <<>> THEN batches + 1 ELSE batches
    /\ LET owner == cached /\ loaded[p] = <<>> IN
        /\ loaded' = [loaded EXCEPT ![p] =
                        IF owner THEN << Cached(backend, disk) >> ELSE @]
        /\ scopes' = [scopes EXCEPT ![p] =
                        Append(@, [outer |-> ~in_batch_mode[p], cache |-> owner])]
    /\ in_batch_mode' = [in_batch_mode EXCEPT ![p] = TRUE]
    /\ IF scopes[p] = <<>>
       THEN /\ snap' = [snap EXCEPT ![p] =
                          [readback |-> ReadBack(p), tasks |-> wk_tasks[p],
                           pending |-> has_pending(p)]]
            /\ dirty' = [dirty EXCEPT ![p] = FALSE]
            /\ err' = [err EXCEPT ![p] = "none"]
       ELSE UNCHANGED << snap, dirty, err >>
    /\ UNCHANGED << pure, backend, disk, wk_data, store_pending, wk_tasks, wk_pending,
                    pc, made, stale, acked, oob >>

----------------------------------------------------------------------------
\* Operations inside a batch.

InBatch(p) == pc[p] = "run" /\ scopes[p] # <<>>

\* Workflow._add_task: _add_empty_task, then _add_elements with n new elements;
\* its callers (add_task, from_template) hold cached_load.  The pending entry
\* notes the number of scopes that were active when it was buffered (depth).
AddTask(p, n) ==
    /\ InBatch(p) /\ loaded[p] # <<>>
    /\ Len(wk_tasks[p]) < MaxTasks /\ made[p] < MaxTasks
    /\ LET new_index == Len(wk_tasks[p])
           insert_ID == get_num_added_tasks(p)
           tmpl      == << p, made[p] >>
       IN
        /\ wk_tasks' = [wk_tasks EXCEPT ![p] =
              ListInsert(@, new_index,
                         [tmpl |-> tmpl, iid |-> insert_ID, nelem |-> 0, pelem |-> n])]
        /\ wk_pending' = [wk_pending EXCEPT ![p] = Append(@, new_index)]
        /\ store_pending' = [store_pending EXCEPT
              ![p].tasks = Append(@, [idx |-> new_index, tmpl |-> tmpl,
                                      iid |-> insert_ID,
                                      depth |-> Len(scopes[p])]),
              ![p].elements = IF n > 0
                              THEN DictSet(@, new_index, [iid |-> insert_ID, n |-> n])
                              ELSE @]
    /\ made' = [made EXCEPT ![p] = @ + 1]
    /\ UNCHANGED << pure, backend, disk, loaded, wk_data, in_batch_mode, scopes, pc, err,
                    snap, dirty, stale, acked, batches, oob >>

\* WorkflowTask._add_elements on task index t (0-based): n new elements
AddElements(p, t, n) ==
    /\ InBatch(p)
    /\ t < Len(wk_tasks[p])
    /\ wk_tasks[p][t + 1].nelem + wk_tasks[p][t + 1].pelem + n <= MaxElems
    /\ wk_tasks' = [wk_tasks EXCEPT ![p][t + 1].pelem = @ + n]
    /\ store_pending' = [store_pending EXCEPT ![p].elements =
          DictSet(@, t, [iid |-> wk_tasks[p][t + 1].iid,
                         n |-> n + (IF t \in DOMAIN @ THEN @[t].n ELSE 0)])]
    /\ UNCHANGED << pure, backend, disk, loaded, wk_data, wk_pending, in_batch_mode, scopes,
                    pc, err, made, snap, dirty, stale, acked, batches, oob >>

NumParams(d) == Cardinality(DOMAIN d.params)

\* _add_parameter_data: JSON buffers the value under the next index; Zarr
\* appends to the base array on disk at once and counts it as pending
AddParameter(p, v) ==
    /\ InBatch(p)
    /\ NumParams(disk) + Cardinality(DOMAIN store_pending[p].parameter_data) < MaxParams
    /\ IF backend = "json"
       THEN /\ LET idx == NumParams(load(p))
                          + Cardinality(DOMAIN store_pending[p].parameter_data)
               IN store_pending' = [store_pending EXCEPT
                     ![p].parameter_data = DictSet(@, idx, v)]
            /\ UNCHANGED << disk, stale, dirty >>
       ELSE /\ disk' = [disk EXCEPT
                          !.params = DictSet(@, NumParams(disk), v),
                          !.groups = IF HasArrays(v) THEN @ \cup {NumParams(disk)} ELSE @]
            /\ store_pending' = [store_pending EXCEPT ![p].num_parameter_data = @ + 1]
            /\ TouchDisk(p)
    /\ UNCHANGED << pure, backend, loaded, wk_data, wk_tasks, wk_pending, in_batch_mode,
                    scopes, pc, err, made, snap, acked, batches, oob >>

----------------------------------------------------------------------------
\* Leaving the batch by an exception.  The exception passes through every
\* active scope.  A nested scope (`if self._in_batch_mode: yield`) has no
\* handler; the outermost scope's `except` rejects: the store forgets its
\* pending changes (Zarr first shrinks the parameter arrays by the number of
\* parameters it appended), every task forgets its pending elements, and
\* _reject_pending removes the pending tasks.  cached_load's `finally` drops
\* the cache.

RECURSIVE RemovePendingTasks(_, _)
RemovePendingTasks(tasks, idxs) ==
    IF idxs = <<>> THEN tasks
    ELSE RemovePendingTasks(ListPop(tasks, idxs[Len(idxs)]),
                            SubSeq(idxs, 1, Len(idxs) - 1))

\* WorkflowTask._reset_pending_elements
ResetPendingElements(tasks) ==
    [i \in DOMAIN tasks |-> [tasks[i] EXCEPT !.pelem = 0]]

\* WorkflowTask._accept_pending_elements
AcceptPendingElements(tasks) ==
    [i \in DOMAIN tasks |-> [tasks[i] EXCEPT !.nelem = @ + tasks[i].pelem, !.pelem = 0]]

\* ZarrPersistentStore._remove_pending_parameter_data with n pending
\* parameters: the array groups of param_idx - 1 for param_idx in
\* range(n, 0, -1) are removed, then the base array is shortened by n
RemovePendingParameterData(d, n) ==
    [d EXCEPT !.groups = @ \ (0..(n - 1)),
              !.params = [i \in {j \in DOMAIN d.params : j < NumParams(d) - n}
                            |-> d.params[i]]]

\* Workflow._reject_pending
RejectPending(p) ==
    /\ wk_tasks' = [wk_tasks EXCEPT ![p] =
          RemovePendingTasks(ResetPendingElements(@), wk_pending[p])]
    /\ wk_pending' = [wk_pending EXCEPT ![p] = <<>>]

ExceptionExit(p, e) ==
    /\ scopes' = [scopes EXCEPT ![p] = <<>>]
    /\ loaded' = [loaded EXCEPT ![p] = <<>>]
    /\ err' = [err EXCEPT ![p] = e]
    /\ IF scopes[p][1].outer
       THEN /\ in_batch_mode' = [in_batch_mode EXCEPT ![p] = FALSE]
            /\ store_pending' = [store_pending EXCEPT ![p] = EmptyPending]
            /\ RejectPending(p)
            /\ IF backend = "zarr" /\ store_pending[p].num_parameter_data > 0
               THEN /\ disk' = RemovePendingParameterData(
                                  disk, store_pending[p].num_parameter_data)
                    /\ TouchDisk(p)
               ELSE UNCHANGED << disk, stale, dirty >>
       ELSE UNCHANGED << in_batch_mode, store_pending, wk_tasks, wk_pending, disk,
                         stale, dirty >>
    /\ UNCHANGED << pure, backend, wk_data, pc, made, snap, acked, batches, oob >>

\* Any exception raised by the code inside the batch (MissingInputs, ...)
Fail(p) ==
    /\ InBatch(p)
    /\ ExceptionExit(p, "Exception")

\* set_parameter(index, data) with data # None, called inside a batch
\* (Workflow.save_parameter)
SetParameter(p, i, v) ==
    /\ InBatch(p)
    /\ IF i \notin DOMAIN (IF backend = "json" THEN load(p).params ELSE disk.params)
       THEN ExceptionExit(p, "KeyError")
       ELSE IF is_parameter_set(p, i)
       THEN ExceptionExit(p, "RuntimeError")
       ELSE /\ IF backend = "json"
               THEN /\ store_pending' = [store_pending EXCEPT
                          ![p].parameter_data = DictSet(@, i, v)]
                    /\ UNCHANGED << disk, stale, dirty >>
               ELSE /\ disk' = [disk EXCEPT
                                  !.params = DictSet(@, i, v),
                                  !.groups = IF HasArrays(v) THEN @ \cup {i} ELSE @]
                    /\ TouchDisk(p)
                    /\ UNCHANGED store_pending
            /\ UNCHANGED << pure, backend, err, loaded, wk_data, wk_tasks, wk_pending,
                            in_batch_mode, scopes, pc, made, snap, acked, batches, oob >>

----------------------------------------------------------------------------
\* Leaving a batch_update scope normally.

Top(p) == scopes[p][Len(scopes[p])]

PopScope(p) ==
    /\ scopes' = [scopes EXCEPT ![p] = SubSeq(@, 1, Len(@) - 1)]
    /\ loaded' = [loaded EXCEPT ![p] = IF Top(p).cache THEN <<>> ELSE @]

\* a nested scope that rejects the pending changes when it is left
ExitNestedRejects(p) ==
    /\ InBatch(p) /\ ~Top(p).outer
    /\ PopScope(p)
    /\ err' = [err EXCEPT ![p] = IF Len(scopes[p]) = 1 THEN "exit_nested" ELSE @]
    /\ store_pending' = [store_pending EXCEPT ![p] = EmptyPending]
    /\ RejectPending(p)
    /\ UNCHANGED << pure, backend, disk, wk_data,
                    in_batch_mode, pc, made, snap, dirty, stale, acked, batches, oob >>

\* `if self._in_batch_mode: yield`: nothing happens on exit
ExitNested(p) ==
    /\ InBatch(p) /\ ~Top(p).outer
    /\ PopScope(p)
    /\ err' = [err EXCEPT ![p] = IF Len(scopes[p]) = 1 THEN "exit_nested" ELSE @]
    /\ UNCHANGED << pure, backend, disk, wk_data, store_pending, wk_tasks, wk_pending,
                    in_batch_mode, pc, made, snap, dirty, stale, acked, batches, oob >>

\* the `else` branch with nothing pending
ExitEmpty(p) ==
    /\ InBatch(p) /\ Top(p).outer /\ ~has_pending(p)
    /\ PopScope(p)
    /\ err' = [err EXCEPT ![p] = "exit_empty"]
    /\ UNCHANGED << pure, backend, disk, wk_data, store_pending, wk_tasks, wk_pending,
                    in_batch_mode, pc, made, snap, dirty, stale, acked, batches, oob >>

\* the `else` branch: pending changes and is_modified_on_disk() is true
ExitConflict(p) ==
    /\ InBatch(p) /\ Top(p).outer /\ has_pending(p)
    /\ is_modified_on_disk(p)
    /\ scopes' = [scopes EXCEPT ![p] = <<>>]
    /\ loaded' = [loaded EXCEPT ![p] = <<>>]
    /\ err' = [err EXCEPT ![p] = "WorkflowBatchUpdateFailedError"]
    /\ UNCHANGED << pure, backend, disk, wk_data, store_pending, wk_tasks, wk_pending,
                    in_batch_mode, pc, made, snap, dirty, stale, acked, batches, oob >>

\* the `else` branch: pending changes, no modification seen; the tasks accept
\* their pending elements and commit_pending starts by load()
CommitBegin(p) ==
    /\ InBatch(p) /\ Top(p).outer /\ has_pending(p)
    /\ ~is_modified_on_disk(p)
    /\ wk_tasks' = [wk_tasks EXCEPT ![p] = AcceptPendingElements(@)]
    /\ wk_data' = [wk_data EXCEPT ![p] = << load(p) >>]
    /\ pc' = [pc EXCEPT ![p] = "write"]
    /\ UNCHANGED << pure, backend, disk, loaded, store_pending, wk_pending, in_batch_mode,
                    scopes, err, made, snap, dirty, stale, acked, batches, oob >>

----------------------------------------------------------------------------
\* commit_pending, after its load(): the pending buckets are merged and the
\* result is dumped.

\* new template tasks and workflow tasks, in the order they were added
RECURSIVE InsertTasks(_, _)
InsertTasks(tasks, new) ==
    IF new = <<>> THEN tasks
    ELSE InsertTasks(ListInsert(tasks, Head(new).idx,
                                [tmpl |-> Head(new).tmpl, iid |-> Head(new).iid,
                                 nelem |-> 0]),
                     Tail(new))

\* JSON: new elements extend wk_data["tasks"][task_idx]["elements"]
ExtendElements(tasks, elements) ==
    [i \in DOMAIN tasks |->
        IF (i - 1) \in DOMAIN elements
        THEN [tasks[i] EXCEPT !.nelem = @ + elements[i - 1].n]
        ELSE tasks[i]]

\* Zarr: a new group with empty arrays per new task, then the new elements are
\* appended to the elements array of their task's insert ID
AppendArrays(arrays, new, elements) ==
    LET created == [k \in DOMAIN arrays \cup {new[j].iid : j \in DOMAIN new} |->
                       IF k \in DOMAIN arrays THEN arrays[k] ELSE 0]
        added(k) == {t \in DOMAIN elements : elements[t].iid = k}
    IN [k \in DOMAIN created |->
           IF added(k) # {}
           THEN created[k] + elements[CHOOSE t \in added(k) : TRUE].n
           ELSE created[k]]

\* JSONPersistentStore.commit_pending: the document that is dumped
JSONCommitted(wk, pend) ==
    [tasks |-> ExtendElements(InsertTasks(wk.tasks, pend.tasks), pend.elements),
     arrays |-> wk.arrays,
     num_added_tasks |-> wk.num_added_tasks + Len(pend.tasks),
     params |-> pend.parameter_data @@ wk.params,
     groups |-> wk.groups]

\* ZarrPersistentStore.commit_pending: arrays are written in place, the root
\* attributes are replaced by the merged metadata
ZarrCommitted(d, md, pend) ==
    [tasks |-> InsertTasks(md.tasks, pend.tasks),
     arrays |-> AppendArrays(d.arrays, pend.tasks, pend.elements),
     num_added_tasks |-> md.num_added_tasks + Len(pend.tasks),
     params |-> d.params,
     groups |-> d.groups]

\* the commit cannot be carried out: a pending element refers to a task index
\* the document does not have (JSON), or a new task's group exists already or
\* a pending element's array does not exist (Zarr)
CommitRaises(p) ==
    LET pend == store_pending[p]
        wk   == wk_data[p][1]
    IN IF backend = "json"
       THEN \E t \in DOMAIN pend.elements : t >= Len(wk.tasks) + Len(pend.tasks)
       ELSE \/ \E j \in DOMAIN pend.tasks : pend.tasks[j].iid \in DOMAIN disk.arrays
            \/ \E t \in DOMAIN pend.elements :
                  pend.elements[t].iid \notin
                      DOMAIN disk.arrays \cup {pend.tasks[j].iid : j \in DOMAIN pend.tasks}

CommitWrite(p) ==
    /\ pc[p] = "write" /\ ~CommitRaises(p)
    /\ disk' = IF backend = "json"
               THEN JSONCommitted(wk_data[p][1], store_pending[p])
               ELSE ZarrCommitted(disk, wk_data[p][1], store_pending[p])
    /\ acked' = acked \cup {store_pending[p].tasks[j].tmpl :
                               j \in DOMAIN store_pending[p].tasks}
    /\ store_pending' = [store_pending EXCEPT ![p] = EmptyPending]
    /\ wk_pending' = [wk_pending EXCEPT ![p] = <<>>]
    /\ in_batch_mode' = [in_batch_mode EXCEPT ![p] = FALSE]
    /\ wk_data' = [wk_data EXCEPT ![p] = <<>>]
    /\ scopes' = [scopes EXCEPT ![p] = <<>>]
    /\ loaded' = [loaded EXCEPT ![p] = <<>>]
    /\ pc' = [pc EXCEPT ![p] = "run"]
    /\ err' = [err EXCEPT ![p] = "committed"]
    /\ TouchDisk(p)
    /\ UNCHANGED << pure, backend, wk_tasks, made, snap, batches, oob >>

\* an error inside commit_pending is not handled by batch_update
CommitFail(p) ==
    /\ pc[p] = "write" /\ CommitRaises(p)
    /\ wk_data' = [wk_data EXCEPT ![p] = <<>>]
    /\ scopes' = [scopes EXCEPT ![p] = <<>>]
    /\ loaded' = [loaded EXCEPT ![p] = <<>>]
    /\ pc' = [pc EXCEPT ![p] = "run"]
    /\ err' = [err EXCEPT ![p] = "CommitError"]
    /\ UNCHANGED << pure, backend, disk, store_pending, wk_tasks, wk_pending, in_batch_mode,
                    made, snap, dirty, stale, acked, batches, oob >>

----------------------------------------------------------------------------
StoreInit ==
    /\ backend \in Backends
    /\ disk = EmptyDoc
    /\ loaded = [p \in Procs |-> <<>>]
    /\ wk_data = [p \in Procs |-> <<>>]
    /\ store_pending = [p \in Procs |-> EmptyPending]
    /\ wk_tasks = [p \in Procs |-> <<>>]
    /\ wk_pending = [p \in Procs |-> <<>>]
    /\ in_batch_mode = [p \in Procs |-> FALSE]
    /\ scopes = [p \in Procs |-> <<>>]
    /\ pc = [p \in Procs |-> "run"]
    /\ err = [p \in Procs |-> "none"]
    /\ made = [p \in Procs |-> 0]
    /\ snap = [p \in Procs |-> [readback |-> [tasks |-> <<>>, num_added_tasks |-> 0,
                                             params |-> EmptyDict],
                                tasks |-> <<>>, pending |-> FALSE]]
    /\ dirty = [p \in Procs |-> FALSE]
    /\ stale = [p \in Procs |-> FALSE]
    /\ acked = {}
    /\ batches = 0
    /\ oob = 0

----------------------------------------------------------------------------
\* Complete calls made by another engine process on the same workflow, each
\* from its cached_load to the end of its commit, with the process under study
\* not running in between.

\* Workflow.add_task of a task with no elements, which allocates m unset
\* parameters
OobAddTask(q, m) ==
    /\ oob < MaxOob /\ oob' = oob + 1
    /\ Len(disk.tasks) < MaxTasks /\ made[q] < MaxTasks
    /\ NumParams(disk) + m <= MaxParams
    /\ LET tmpl == << q, made[q] >>
           pend == [EmptyPending EXCEPT
                      !.tasks = << [idx |-> Len(disk.tasks), tmpl |-> tmpl,
                                    iid |-> disk.num_added_tasks] >>,
                      !.parameter_data =
                          [k \in NumParams(disk)..(NumParams(disk) + m - 1) |-> 0]]
       IN /\ disk' = IF backend = "json"
                     THEN JSONCommitted(disk, pend)
                     ELSE ZarrCommitted([disk EXCEPT !.params = pend.parameter_data @@ @],
                                        Cached(backend, disk), pend)
          /\ acked' = acked \cup {tmpl}
    /\ made' = [made EXCEPT ![q] = @ + 1]
    /\ TouchDisk(q)
    /\ UNCHANGED << pure, backend, loaded, wk_data, store_pending, wk_tasks, wk_pending,
                    in_batch_mode, scopes, pc, err, snap, batches >>

\* Workflow.save_parameter on an unset parameter (a running job reporting an
\* output)
OobSaveParameter(q, i, v) ==
    /\ oob < MaxOob /\ oob' = oob + 1
    /\ i \in DOMAIN disk.params /\ disk.params[i] = 0
    /\ disk' = [disk EXCEPT !.params = DictSet(@, i, v)]
    /\ TouchDisk(q)
    /\ UNCHANGED << pure, backend, loaded, wk_data, store_pending, wk_tasks, wk_pending,
                    in_batch_mode, scopes, pc, err, made, snap, acked, batches >>

----------------------------------------------------------------------------
\* Part 2: element resolution.

MaxMult == 2
MaxNest == 1

\* the paths of an element set's inputs; every element set has resources
Paths == << "resources.any", "inputs.p1", "inputs.p2", "inputs.p3" >>

SeqRange(s) == {s[i] : i \in DOMAIN s}

\* Task.prepare_element_resolution: one record per path of input_data_indices
\* (a dict from path to the number of values given for it), the nesting order
\* of a path that element_set.nesting_order does not name being -1
prepare_element_resolution(nesting_order, input_data_indices) ==
    LET Given(path) == path \in DOMAIN input_data_indices
        paths == SelectSeq(Paths, Given)
    IN [i \in DOMAIN paths |->
           [multiplicity |-> input_data_indices[paths[i]],
            nesting_order |-> IF paths[i] \in DOMAIN nesting_order
                              THEN nesting_order[paths[i]] ELSE -1,
            path |-> paths[i]]]

\* sorted(multiplicities, key=lambda x: x["nesting_order"]): a stable sort
RECURSIVE SortedByNestingOrder(_)
SortedByNestingOrder(lst) ==
    IF lst = <<>> THEN <<>>
    ELSE LET rest == SortedByNestingOrder(SubSeq(lst, 1, Len(lst) - 1))
             x    == lst[Len(lst)]
             k    == Cardinality({i \in DOMAIN rest :
                                     rest[i].nesting_order <= x.nesting_order})
         IN SubSeq(rest, 1, k) \o << x >> \o SubSeq(rest, k + 1, Len(rest))

\* group_by_dict_key_values(lst, "nesting_order"): each item joins the first
\* group whose first item has its nesting_order, or starts a new group
RECURSIVE GroupInto(_, _)
GroupInto(grouped, lst) ==
    IF lst = <<>> THEN grouped
    ELSE LET item == Head(lst)
             hits == {g \in DOMAIN grouped :
                         grouped[g][1].nesting_order = item.nesting_order}
         IN GroupInto(IF hits = {} THEN Append(grouped, << item >>)
                      ELSE [grouped EXCEPT
                              ![CHOOSE g \in hits : \A h \in hits : g <= h] =
                                  Append(@, item)],
                      Tail(lst))

group_by_dict_key_values(lst) == GroupInto(<< << Head(lst) >> >>, Tail(lst))

\* the elements zipped with the group's value indices instead of multiplied
NewElementsZipped(elements, para_sequences) ==
    LET paths == {para_sequences[i].path : i \in DOMAIN para_sequences}
    IN [k \in DOMAIN elements |->
           [path \in DOMAIN elements[k] \cup paths |->
               IF path \in paths THEN k - 1 ELSE elements[k][path]]]

\* the loops the other way round: the group's value index varying fastest
NewElementsValueFastest(elements, para_sequences) ==
    LET mult  == para_sequences[1].multiplicity
        n     == Len(elements)
        paths == {para_sequences[i].path : i \in DOMAIN para_sequences}
    IN [k \in 1..(mult * n) |->
           LET val_idx == (k - 1) % mult
               element == elements[((k - 1) \div mult) + 1]
           IN [path \in DOMAIN element \cup paths |->
                  IF path \in paths THEN val_idx ELSE element[path]]]

\* the body of the loop over the groups: every element resolved so far is
\* repeated for each value index of the group, the value index varying slowest
NewElements(elements, para_sequences) ==
    LET mult  == para_sequences[1].multiplicity
        n     == Len(elements)
        paths == {para_sequences[i].path : i \in DOMAIN para_sequences}
    IN [k \in 1..(mult * n) |->
           LET val_idx == (k - 1) \div n
               element == elements[((k - 1) % n) + 1]
           IN [path \in DOMAIN element \cup paths |->
                  IF path \in paths THEN val_idx ELSE element[path]]]

\* the multiplicity of the first record of a group taken for the whole group
AllMultisOfFirst(para_sequences) == {para_sequences[1].multiplicity}

\* all_multis of a group
AllMultis(para_sequences) ==
    {para_sequences[i].multiplicity : i \in DOMAIN para_sequences}

\* resolve_element_data_indices, up to the loop
ResolveCall ==
    /\ resolve_pc = "call"
    /\ multi_srt_grp' = group_by_dict_key_values(SortedByNestingOrder(multiplicities))
    /\ element_dat_idx' = << EmptyDict >>
    /\ resolve_pc' = "loop"
    /\ UNCHANGED << storeVars, laterVars, cacheVars, jsVars, pairVars, createVars, multiplicities >>

\* one pass of the loop over the groups
ResolveGroup ==
    /\ resolve_pc = "loop" /\ multi_srt_grp # <<>>
    /\ Cardinality(AllMultis(Head(multi_srt_grp))) <= 1
    /\ element_dat_idx' = NewElements(element_dat_idx, Head(multi_srt_grp))
    /\ multi_srt_grp' = Tail(multi_srt_grp)
    /\ UNCHANGED << storeVars, laterVars, cacheVars, jsVars, pairVars, createVars, multiplicities, resolve_pc >>

\* the paths of one nesting order do not all have the same multiplicity
ResolveRaise ==
    /\ resolve_pc = "loop" /\ multi_srt_grp # <<>>
    /\ Cardinality(AllMultis(Head(multi_srt_grp))) > 1
    /\ resolve_pc' = "ValueError"
    /\ UNCHANGED << storeVars, laterVars, cacheVars, jsVars, pairVars, createVars, multiplicities, multi_srt_grp, element_dat_idx >>

ResolveReturn ==
    /\ resolve_pc = "loop" /\ multi_srt_grp = <<>>
    /\ resolve_pc' = "done"
    /\ UNCHANGED << storeVars, laterVars, cacheVars, jsVars, pairVars, createVars, multiplicities, multi_srt_grp, element_dat_idx >>

\* The two backends side by side (Part 5).  A document holds counts of the
\* template tasks, workflow tasks, template components, element sets, elements
\* and loops, the element iterations and the parameter data.
EmptyStore ==
    [template_tasks |-> 0, tasks |-> 0, num_added_tasks |-> 0,
     template_components |-> 0, element_sets |-> 0, elements |-> 0,
     iters |-> << >>, template_loops |-> 0, loops |-> 0, params |-> << >>]

\* PersistentStore._get_pending_dct of the side-by-side stores
EmptyPendings ==
    [template_tasks |-> 0, tasks |-> 0, template_components |-> 0,
     element_sets |-> 0, elements |-> 0, element_iterations |-> << >>,
     loop_idx |-> EmptyDict, EARs |-> EmptyDict, template_loops |-> 0, loops |-> 0,
     parameter_data |-> EmptyDict, num_parameter_data |-> 0]

\* no side-by-side stores in use
PairIdle ==
    /\ stores = [b \in Backends |-> EmptyStore]
    /\ pendings = [b \in Backends |-> EmptyPendings]
    /\ commit_doc = [b \in Backends |-> EmptyStore]
    /\ commit_pos = 0
    /\ flushed = [b \in Backends |-> << >>]
    /\ initialised = [committed |-> {}, pending |-> {}]
    /\ num_ops = 0

\* nothing buffered by a batch
NoPending == [template_components |-> 0, tasks |-> 0, parameter_data |-> 0,
              element_sets |-> 0, elements |-> 0]

\* write_empty_workflow: a workflow with no tasks
NewWorkflow == [tasks |-> 0, parameter_data |-> 0, elements |-> 0]

CreateIdle ==
    /\ wk_dir = "none" /\ replaced_dir = "none"
    /\ new_pending = NoPending /\ new_disk = NewWorkflow
    /\ tmpl_tasks = << >> /\ creation = FALSE
    /\ create_pc = "idle" /\ create_err = "none"

\* no jobscript dependencies are being resolved
DepIdle ==
    /\ dep_in = << >> /\ js = << >> /\ element_deps = << >> /\ js_deps = << >>
    /\ dep_pc = "idle"

\* no runs are being initialised or submitted
RunIdle ==
    /\ schema_actions = << >> /\ element_iters = << >> /\ run_parameters = << >>
    /\ action_EARs = << >> /\ wk_submissions = << >>
    /\ init_result = << >> /\ ever_deferred = {} /\ run_pc = "idle"

\* no store resource is in use
ResIdle ==
    /\ sr_file = 0 /\ sr_data = << >> /\ sr_same = FALSE /\ sr_hash = 0
    /\ sr_hist = << >> /\ sr_ops = 0

\* no file-system operation is under way
RetryIdle ==
    /\ fs_op = "none" /\ fs_tries = 0 /\ fs_delay = 0 /\ fs_calls = 0
    /\ fs_dir = FALSE /\ fs_pc = "idle"

\* no tasks are being inserted
TaskIdle ==
    /\ tk_tasks = << >> /\ tk_pending = << >> /\ tk_store_pending = << >>
    /\ tk_disk = << >> /\ tk_added = 0 /\ tk_made = 0 /\ tk_pc = "idle"

\* no parameter sources are being read
SourceIdle ==
    /\ ps_disk = << >> /\ ps_loaded = << >> /\ ps_pending = << >>
    /\ ps_err = "none" /\ ps_ops = 0 /\ ps_pc = "idle"

LastIdle == ResIdle /\ RetryIdle /\ TaskIdle /\ SourceIdle

LaterIdle == DepIdle /\ RunIdle /\ LastIdle

\* no jobscripts are being resolved
JSIdle ==
    /\ res_map = << >> /\ resource_map = << >> /\ allocated = {}
    /\ jobscripts = << >> /\ js_act_idx = 0 /\ js_res_pos = 1
    /\ submission_jobscripts = << >> /\ js_pc = "idle"

\* no dependency cache is being built
CacheIdle ==
    /\ all_data_idx = <<>> /\ all_param_sources = <<>>
    /\ all_iter_run_IDs = <<>> /\ all_elem_iter_IDs = <<>>
    /\ dep_cache = <<>> /\ EAR_dependencies = <<>>
    /\ cache_pc = "idle"

ResolveIdle ==
    /\ multiplicities = <<>>
    /\ multi_srt_grp = <<>>
    /\ element_dat_idx = <<>>
    /\ resolve_pc = "idle"

\* an element set: resources, and any of the other paths with 0..MaxMult
\* values each; element_set.nesting_order names some of them
InitResolve ==
    /\ StoreInit /\ backend = "json" /\ CacheIdle /\ JSIdle /\ PairIdle /\ CreateIdle /\ LaterIdle
    /\ \E given \in SUBSET (SeqRange(Paths) \ {"resources.any"}) :
       \E named \in SUBSET given :
       \E lens \in [given -> 0..MaxMult] :
       \E nesting_order \in [named -> 0..MaxNest] :
          multiplicities = prepare_element_resolution(
                               nesting_order, ("resources.any" :> 1) @@ lens)
    /\ multi_srt_grp = <<>>
    /\ element_dat_idx = <<>>
    /\ resolve_pc = "call"

ResolveNext == ResolveCall \/ ResolveGroup \/ ResolveRaise \/ ResolveReturn

SpecResolve == InitResolve /\ [][ResolveNext]_vars

\* the nesting orders of the element set's records
NestingOrders == {multiplicities[i].nesting_order : i \in DOMAIN multiplicities}

\* the multiplicity of the records of one nesting order
SharedMultiplicity(order) ==
    multiplicities[CHOOSE i \in DOMAIN multiplicities :
                      multiplicities[i].nesting_order = order].multiplicity

RECURSIVE ProductOver(_)
ProductOver(orders) ==
    IF orders = {} THEN 1
    ELSE LET order == CHOOSE o \in orders : TRUE
         IN SharedMultiplicity(order) * ProductOver(orders \ {order})

\* C5: the number of elements that resolution returns is the product, over the
\* distinct nesting orders of the element set's records, of the multiplicity
\* shared by the records of that order.
C5_MultiplicityProduct ==
    resolve_pc = "done" => Len(element_dat_idx) = ProductOver(NestingOrders)

\* three nesting-order groups, one of them of two paths, and four elements
C5_Witness ==
    /\ resolve_pc = "done"
    /\ Len(multiplicities) = 4 /\ Cardinality(NestingOrders) = 3
    /\ Len(element_dat_idx) = 4

\* the value index of record i in the k-th element of a list in which the
\* groups of the given nesting orders vary faster than the record's own
ValueIndexAt(k, i, faster) ==
    ((k - 1) \div ProductOver(faster)) % multiplicities[i].multiplicity

\* the elements are those of the list in which each record's index varies
\* slower than the indices of the nesting orders that Faster(its order) holds
ElementsInOrder(Faster(_)) ==
    /\ Len(element_dat_idx) = ProductOver(NestingOrders)
    /\ \A k \in DOMAIN element_dat_idx :
       \A i \in DOMAIN multiplicities :
          element_dat_idx[k][multiplicities[i].path]
              = ValueIndexAt(k, i, Faster(multiplicities[i].nesting_order))

HigherOrders(order) == {o \in NestingOrders : o > order}

LowerOrders(order) == {o \in NestingOrders : o < order}

\* C20: the elements are the cross-product of the groups in the one order in
\* which the index of a group of lower nesting order varies slower than that of
\* a group of higher nesting order.
C20_LowerOrderSlower ==
    resolve_pc = "done" => ElementsInOrder(HigherOrders)

\* C20, amended: the elements are the cross-product of the groups in the one
\* order in which the index of a group of lower nesting order varies faster
\* than that of a group of higher nesting order (the lowest nesting order is
\* the innermost, fastest-varying index).
C20_LowerOrderFaster ==
    resolve_pc = "done" => ElementsInOrder(LowerOrders)

\* two groups of two values each have been combined
C20_Witness ==
    /\ resolve_pc = "done"
    /\ Len(element_dat_idx) = 4
    /\ Cardinality({o \in NestingOrders : SharedMultiplicity(o) = 2}) = 2

----------------------------------------------------------------------------
\* two records of one nesting order that do not have the same multiplicity
InconsistentAt(order) ==
    \E i, j \in DOMAIN multiplicities :
        /\ multiplicities[i].nesting_order = order
        /\ multiplicities[j].nesting_order = order
        /\ multiplicities[i].multiplicity # multiplicities[j].multiplicity

\* the call has ended, by a return or by an exception
ResolveEnded == resolve_pc \in {"done", "ValueError"}

\* C21: when two records of the element set share a nesting order (the default
\* order -1 of the paths without a declared order included) and differ in
\* multiplicity, resolution ends with the inconsistent-multiplicity ValueError
\* and never returns a list of elements.
C21_InconsistentMultiplicityRaises ==
    (ResolveEnded /\ \E order \in NestingOrders : InconsistentAt(order))
        => resolve_pc = "ValueError"

\* the call has raised for two records of the default order, the records of a
\* declared order being consistent
C21_Witness ==
    /\ resolve_pc = "ValueError"
    /\ InconsistentAt(-1)
    /\ \E order \in NestingOrders : order >= 0 /\ ~InconsistentAt(order)

\* Part 3: the dependency cache.  Runs, iterations and elements are numbered
\* from 0; a parameter's source names the run that produces it ("EAR_ID") or
\* is a local input.

MaxRuns == 4

\* the run itself not left out
run_dependencies_with_self(data_idx, sources) ==
    [idx \in DOMAIN data_idx |->
        {sources[k].EAR_ID : k \in {j \in data_idx[idx] :
                                      "EAR_ID" \in DOMAIN sources[j]}}]

\* run_dependencies: per run, the runs that produce the parameters of its
\* data_idx, the run itself left out
run_dependencies(data_idx, sources) ==
    [idx \in DOMAIN data_idx |->
        {sources[k].EAR_ID : k \in {j \in data_idx[idx] :
                                      /\ "EAR_ID" \in DOMAIN sources[j]
                                      /\ sources[j].EAR_ID # idx}}]

\* a defaultdict(set) filled by d[m].add(idx) for every m of dependencies[idx]:
\* it has a key for each m that some set of dependencies holds, and no other
DependentsDict(dependencies) ==
    [m \in UNION {dependencies[idx] : idx \in DOMAIN dependencies} |->
        {idx \in DOMAIN dependencies : m \in dependencies[idx]}]

\* d[k] of a defaultdict(set)
DefaultGet(d, k) == IF k \in DOMAIN d THEN d[k] ELSE {}

\* the loop over range(num) left out
MissingNotAdded(d, num) == d

\* "add missing": for k in range(num): d[k]
AddMissing(d, num) ==
    [k \in DOMAIN d \cup 0..(num - 1) |-> DefaultGet(d, k)]

\* run_dependents
run_dependents(dependencies, num_runs) ==
    AddMissing(DependentsDict(dependencies), num_runs)

\* for each iteration, which runs does it depend on?
iter_run_dependencies(iter_run_IDs, run_deps) ==
    [k \in DOMAIN iter_run_IDs |-> UNION {run_deps[i] : i \in iter_run_IDs[k]}]

\* for each run (iteration), which iteration (element) does it belong to?  The
\* dict is filled in the order of the owners' IDs, so the last owner stays.
OwnerIDs(owned_IDs) ==
    [x \in UNION {owned_IDs[k] : k \in DOMAIN owned_IDs} |->
        SetMax({k \in DOMAIN owned_IDs : x \in owned_IDs[k]})]

\* the mapped dependencies dropped altogether
NoLiftedDependencies(dependencies, owner_IDs) ==
    [k \in DOMAIN dependencies |-> {}]

\* iter_iter_dependencies and elem_elem_dependencies: the dependencies mapped
\* to the iterations (elements) they belong to
LiftedDependencies(dependencies, owner_IDs) ==
    [k \in DOMAIN dependencies |-> {owner_IDs[i] : i \in dependencies[k]}]

\* elem_iter_dependencies
elem_iter_dependencies(elem_iter_IDs, iter_iter_deps) ==
    [k \in DOMAIN elem_iter_IDs |-> UNION {iter_iter_deps[i] : i \in elem_iter_IDs[k]}]

\* elem_elem_dependents
elem_elem_dependents(dependencies, num_elems) ==
    AddMissing(DependentsDict(dependencies), num_elems)

\* elem_elem_dependents_rec: for each key that elem_elem_dependents has before
\* the missing keys are added, each direct dependent and its direct dependents
\* other than k; then the missing keys
elem_elem_dependents_rec(dependencies, num_elems) ==
    LET dependents == DependentsDict(dependencies)
    IN AddMissing([k \in DOMAIN dependents |->
                      dependents[k] \cup
                      UNION {DefaultGet(dependents, i) \ {k} : i \in dependents[k]}],
                  num_elems)

\* DependencyCache.build
build(data_idx, sources, iter_run_IDs, elem_iter_IDs) ==
    LET run_deps       == run_dependencies(data_idx, sources)
        iter_run_deps  == iter_run_dependencies(iter_run_IDs, run_deps)
        iter_iter_deps == LiftedDependencies(iter_run_deps, OwnerIDs(iter_run_IDs))
        elem_iter_deps == elem_iter_dependencies(elem_iter_IDs, iter_iter_deps)
        elem_elem_deps == LiftedDependencies(elem_iter_deps, OwnerIDs(elem_iter_IDs))
        num_runs       == Cardinality(DOMAIN data_idx)
        num_elems      == Cardinality(DOMAIN elem_iter_IDs)
    IN [run_dependencies         |-> run_deps,
        run_dependents           |-> run_dependents(run_deps, num_runs),
        iter_run_dependencies    |-> iter_run_deps,
        iter_iter_dependencies   |-> iter_iter_deps,
        elem_iter_dependencies   |-> elem_iter_deps,
        elem_elem_dependencies   |-> elem_elem_deps,
        elem_elem_dependents     |-> elem_elem_dependents(elem_elem_deps, num_elems),
        elem_elem_dependents_rec |-> elem_elem_dependents_rec(elem_elem_deps, num_elems)]

\* sorted(out)
RECURSIVE Sorted(_)
Sorted(S) ==
    IF S = {} THEN <<>>
    ELSE LET x == CHOOSE y \in S : \A z \in S : y <= z
         IN << x >> \o Sorted(S \ {x})

\* ElementActionRun.get_EAR_dependencies of run EAR_ID: the runs named by its
\* "EAR_output" sources, the run itself left out, sorted
get_EAR_dependencies(EAR_ID, data_idx, sources) ==
    Sorted({sources[k].EAR_ID : k \in {j \in data_idx[EAR_ID] :
                                         /\ sources[j].type = "EAR_output"
                                         /\ sources[j].EAR_ID # EAR_ID}})

BuildCache ==
    /\ cache_pc = "ready"
    /\ dep_cache' = build(all_data_idx, all_param_sources, all_iter_run_IDs,
                          all_elem_iter_IDs)
    /\ cache_pc' = "built"
    /\ UNCHANGED << storeVars, laterVars, resolveVars, jsVars, pairVars, createVars, all_data_idx, all_param_sources,
                    all_iter_run_IDs, all_elem_iter_IDs, EAR_dependencies >>

GetEARDependencies(EAR_ID) ==
    /\ cache_pc \in {"ready", "built"}
    /\ EAR_ID \in DOMAIN all_data_idx /\ EAR_ID \notin DOMAIN EAR_dependencies
    /\ EAR_dependencies' =
          EAR_dependencies @@
          (EAR_ID :> get_EAR_dependencies(EAR_ID, all_data_idx, all_param_sources))
    /\ UNCHANGED << storeVars, laterVars, resolveVars, jsVars, pairVars, createVars, all_data_idx, all_param_sources,
                    all_iter_run_IDs, all_elem_iter_IDs, dep_cache, cache_pc >>

\* the ways of cutting 0..n-1 into consecutive non-empty chunks, as the map
\* from member to chunk
Chunks(n) ==
    {f \in [0..(n - 1) -> 0..(n - 1)] :
        f[0] = 0 /\ \A i \in 1..(n - 1) : f[i] \in {f[i - 1], f[i - 1] + 1}}

\* a workflow of n runs: run k produces parameter k, parameter n is a local
\* input; every run's data_idx holds its own output and the local input, and
\* the outputs of any earlier runs
InitCache ==
    /\ StoreInit /\ backend = "json" /\ ResolveIdle /\ JSIdle /\ PairIdle /\ CreateIdle /\ LaterIdle
    /\ \E n \in 1..MaxRuns :
       \E run_iter \in Chunks(n) :
       \E iter_elem \in Chunks(run_iter[n - 1] + 1) :
       \E uses \in SUBSET {ab \in (0..(n - 1)) \X (0..(n - 1)) : ab[2] < ab[1]} :
          /\ all_data_idx = [r \in 0..(n - 1) |->
                                {r, n} \cup {ab[2] : ab \in {x \in uses : x[1] = r}}]
          /\ all_param_sources =
                [k \in 0..n |-> IF k < n THEN [type |-> "EAR_output", EAR_ID |-> k]
                                ELSE [type |-> "local_input"]]
          /\ all_iter_run_IDs = [i \in 0..run_iter[n - 1] |->
                                    {r \in 0..(n - 1) : run_iter[r] = i}]
          /\ all_elem_iter_IDs = [e \in 0..iter_elem[run_iter[n - 1]] |->
                                     {i \in 0..run_iter[n - 1] : iter_elem[i] = e}]
    /\ dep_cache = <<>>
    /\ EAR_dependencies = <<>>
    /\ cache_pc = "ready"

CacheNext ==
    \/ BuildCache
    \/ \E EAR_ID \in 0..(MaxRuns - 1) : GetEARDependencies(EAR_ID)

SpecCache == InitCache /\ [][CacheNext]_vars

\* the iteration and the element a run belongs to
IterOf(run) == OwnerIDs(all_iter_run_IDs)[run]
ElemOf(run) == OwnerIDs(all_elem_iter_IDs)[IterOf(run)]

\* C6: no run is in its own dependency set, in DependencyCache.run_dependencies
\* and in the list that get_EAR_dependencies returns.
C6_NoSelfDependency ==
    /\ cache_pc = "built" =>
          \A r \in DOMAIN dep_cache.run_dependencies :
              r \notin dep_cache.run_dependencies[r]
    /\ \A r \in DOMAIN EAR_dependencies : r \notin SeqRange(EAR_dependencies[r])

\* a run whose data_idx holds its own output and another run's output
C6_Witness ==
    /\ cache_pc = "built"
    /\ \E r \in DOMAIN EAR_dependencies :
          /\ all_param_sources[r].EAR_ID = r /\ r \in all_data_idx[r]
          /\ EAR_dependencies[r] # <<>>
          /\ dep_cache.run_dependencies[r] # {}

\* the elements reachable from the elements of S by direct-dependent edges
RECURSIVE Reachable(_, _)
Reachable(dependents, S) ==
    LET more == S \cup UNION {dependents[i] : i \in S}
    IN IF more = S THEN S ELSE Reachable(dependents, more)

\* C7: the recursive dependents of every element are all the elements that a
\* chain of direct-dependent edges of any length leads to from it.
C7_TransitiveClosure ==
    cache_pc = "built" =>
        \A X \in DOMAIN dep_cache.elem_elem_dependents_rec :
            dep_cache.elem_elem_dependents_rec[X] =
                Reachable(dep_cache.elem_elem_dependents,
                          dep_cache.elem_elem_dependents[X])

\* C8: when run A depends on run B, the iteration of A depends on the
\* iteration of B if they differ, and the element of A on the element of B if
\* they differ.
C8_DependencyLift ==
    cache_pc = "built" =>
        \A A \in DOMAIN dep_cache.run_dependencies :
            \A B \in dep_cache.run_dependencies[A] :
                /\ IterOf(A) # IterOf(B) =>
                      IterOf(B) \in dep_cache.iter_iter_dependencies[IterOf(A)]
                /\ ElemOf(A) # ElemOf(B) =>
                      ElemOf(B) \in dep_cache.elem_elem_dependencies[ElemOf(A)]

\* a dependency across elements, one across the iterations of one element and
\* one inside an iteration
C8_Witness ==
    /\ cache_pc = "built"
    /\ \E A \in DOMAIN dep_cache.run_dependencies :
          \E B \in dep_cache.run_dependencies[A] : ElemOf(A) # ElemOf(B)
    /\ \E A \in DOMAIN dep_cache.run_dependencies :
          \E B \in dep_cache.run_dependencies[A] :
              ElemOf(A) = ElemOf(B) /\ IterOf(A) # IterOf(B)
    /\ \E A \in DOMAIN dep_cache.run_dependencies :
          \E B \in dep_cache.run_dependencies[A] : IterOf(A) = IterOf(B)

\* the run-level and the element-level maps of the cache
RunLevelMaps == {dep_cache.run_dependencies, dep_cache.run_dependents}

ElemLevelMaps == {dep_cache.elem_iter_dependencies, dep_cache.elem_elem_dependencies,
                  dep_cache.elem_elem_dependents, dep_cache.elem_elem_dependents_rec}

\* workflow.num_EARs and workflow.num_elements
NumRuns == Cardinality(DOMAIN all_data_idx)
NumElements == Cardinality(DOMAIN all_elem_iter_IDs)

\* C22: after DependencyCache.build, every run-level map has a key (possibly
\* of an empty set) for every run index in range(num_runs), and every
\* element-level map has a key for every element index in range(num_elements).
C22_AllKeysPresent ==
    cache_pc = "built" =>
        /\ \A d \in RunLevelMaps : 0..(NumRuns - 1) \subseteq DOMAIN d
        /\ \A d \in ElemLevelMaps : 0..(NumElements - 1) \subseteq DOMAIN d

\* a built cache in which some run and some element have no dependents, and
\* some run and some element have one
C22_Witness ==
    /\ cache_pc = "built"
    /\ \E r \in 0..(NumRuns - 1) : dep_cache.run_dependents[r] = {}
    /\ \E r \in 0..(NumRuns - 1) : dep_cache.run_dependents[r] # {}
    /\ \E e \in 0..(NumElements - 1) : dep_cache.elem_elem_dependents[e] = {}
    /\ \E e \in 0..(NumElements - 1) : dep_cache.elem_elem_dependents_rec[e] # {}

----------------------------------------------------------------------------
\* Part 4: jobscripts.  A resource map has one row per action and one column
\* per element; a cell holds the index of the EAR's resources, or -1 where the
\* element has no EAR for the action.  Actions and elements are numbered from 0.

MaxActs == 3
MaxJSElems == 2
MaxRes == 2

\* the worked examples: resource maps and the jobscripts expected for them
examples ==
    <<
       [resources |-> << << 1, 1, 1, 2, -1, 2, 4, -1, 1 >>,
                        << 1, 3, 1, 2, 2, 2, 4, 4, 1 >>,
                        << 1, 1, 3, 2, 2, 2, 4, -1, 1 >> >>,
        expected  |-> << [resources |-> 1, elements |-> (0 :> << 0, 1, 2 >> @@ 1 :> << 0 >> @@ 2 :> << 0, 1 >> @@ 8 :> << 0, 1, 2 >>)],
                        [resources |-> 2, elements |-> (3 :> << 0, 1, 2 >> @@ 4 :> << 1, 2 >> @@ 5 :> << 0, 1, 2 >>)],
                        [resources |-> 4, elements |-> (6 :> << 0, 1, 2 >> @@ 7 :> << 1 >>)],
                        [resources |-> 3, elements |-> (1 :> << 1 >>)],
                        [resources |-> 1, elements |-> (1 :> << 2 >>)],
                        [resources |-> 3, elements |-> (2 :> << 2 >>)] >>],
       [resources |-> << << 2, 2, -1 >>,
                        << 8, 8, 1 >>,
                        << 4, 4, 1 >> >>,
        expected  |-> << [resources |-> 2, elements |-> (0 :> << 0 >> @@ 1 :> << 0 >>)],
                        [resources |-> 1, elements |-> (2 :> << 1, 2 >>)],
                        [resources |-> 8, elements |-> (0 :> << 1 >> @@ 1 :> << 1 >>)],
                        [resources |-> 4, elements |-> (0 :> << 2 >> @@ 1 :> << 2 >>)] >>],
       [resources |-> << << 2, 2, -1 >>,
                        << 2, 2, 1 >>,
                        << 4, 4, 1 >> >>,
        expected  |-> << [resources |-> 2, elements |-> (0 :> << 0, 1 >> @@ 1 :> << 0, 1 >>)],
                        [resources |-> 1, elements |-> (2 :> << 1, 2 >>)],
                        [resources |-> 4, elements |-> (0 :> << 2 >> @@ 1 :> << 2 >>)] >>],
       [resources |-> << << 2, 1, 2 >>,
                        << 1, 1, 1 >>,
                        << 1, 1, 1 >> >>,
        expected  |-> << [resources |-> 1, elements |-> (1 :> << 0, 1, 2 >>)],
                        [resources |-> 2, elements |-> (0 :> << 0 >> @@ 2 :> << 0 >>)],
                        [resources |-> 1, elements |-> (0 :> << 1, 2 >> @@ 2 :> << 1, 2 >>)] >>],
       [resources |-> << << 2, -1, 2 >>,
                        << 1, 1, 1 >>,
                        << 1, 1, 1 >> >>,
        expected  |-> << [resources |-> 2, elements |-> (0 :> << 0 >> @@ 2 :> << 0 >>)],
                        [resources |-> 1, elements |-> (0 :> << 1, 2 >> @@ 1 :> << 1, 2 >> @@ 2 :> << 1, 2 >>)] >>],
       [resources |-> << << 1, 1 >>,
                        << 1, 1 >>,
                        << 1, 1 >> >>,
        expected  |-> << [resources |-> 1, elements |-> (0 :> << 0, 1, 2 >> @@ 1 :> << 0, 1, 2 >>)] >>],
       [resources |-> << << 1, 1, 1 >>,
                        << 1, 1, -1 >>,
                        << 1, 1, 1 >> >>,
        expected  |-> << [resources |-> 1, elements |-> (0 :> << 0, 1, 2 >> @@ 1 :> << 0, 1, 2 >> @@ 2 :> << 0, 2 >>)] >>],
       [resources |-> << << 1, 1, -1 >>,
                        << 1, 1, 1 >>,
                        << 1, 1, 1 >> >>,
        expected  |-> << [resources |-> 1, elements |-> (0 :> << 0, 1, 2 >> @@ 1 :> << 0, 1, 2 >> @@ 2 :> << 1, 2 >>)] >>],
       [resources |-> << << 2, 2, -1 >>,
                        << 4, 4, 1 >>,
                        << 4, 4, -1 >>,
                        << 2, 2, 1 >> >>,
        expected  |-> << [resources |-> 2, elements |-> (0 :> << 0 >> @@ 1 :> << 0 >>)],
                        [resources |-> 1, elements |-> (2 :> << 1, 3 >>)],
                        [resources |-> 4, elements |-> (0 :> << 1, 2 >> @@ 1 :> << 1, 2 >>)],
                        [resources |-> 2, elements |-> (0 :> << 3 >> @@ 1 :> << 3 >>)] >>],
       [resources |-> << << 2, 2, -1 >>,
                        << 4, 4, 1 >>,
                        << 4, 4, -1 >>,
                        << 1, 1, 1 >> >>,
        expected  |-> << [resources |-> 2, elements |-> (0 :> << 0 >> @@ 1 :> << 0 >>)],
                        [resources |-> 1, elements |-> (2 :> << 1, 3 >>)],
                        [resources |-> 4, elements |-> (0 :> << 1, 2 >> @@ 1 :> << 1, 2 >>)],
                        [resources |-> 1, elements |-> (0 :> << 3 >> @@ 1 :> << 3 >>)] >>],
       [resources |-> << << 2, 2, -1 >>,
                        << 4, 4, 1 >>,
                        << 4, 8, -1 >>,
                        << 1, 1, 1 >> >>,
        expected  |-> << [resources |-> 2, elements |-> (0 :> << 0 >> @@ 1 :> << 0 >>)],
                        [resources |-> 1, elements |-> (2 :> << 1, 3 >>)],
                        [resources |-> 4, elements |-> (0 :> << 1, 2 >> @@ 1 :> << 1 >>)],
                        [resources |-> 8, elements |-> (1 :> << 2 >>)],
                        [resources |-> 1, elements |-> (0 :> << 3 >> @@ 1 :> << 3 >>)] >>],
       [resources |-> << << 2, 2, -1 >>,
                        << 4, 4, 1 >>,
                        << 4, -1, -1 >>,
                        << 1, 1, 1 >> >>,
        expected  |-> << [resources |-> 2, elements |-> (0 :> << 0 >> @@ 1 :> << 0 >>)],
                        [resources |-> 1, elements |-> (2 :> << 1, 3 >>)],
                        [resources |-> 4, elements |-> (0 :> << 1, 2 >> @@ 1 :> << 1 >>)],
                        [resources |-> 1, elements |-> (0 :> << 3 >> @@ 1 :> << 3 >>)] >>]
    >>

Cell(m, act, elem) == m[act + 1][elem + 1]
NumActs(m) == Len(m)
NumElems(m) == Len(m[1])
AllActs(m) == 0..(NumActs(m) - 1)
AllElems(m) == 0..(NumElems(m) - 1)

\* np.unique(resource_map)
unique(m) == Sorted({Cell(m, a, e) : a \in AllActs(m), e \in AllElems(m)})

resource_idx == unique(res_map)

\* nones_bool = resource_map == none_val, taken before the loops
nones_bool(act, elem) == Cell(res_map, act, elem) = -1

\* resource_map[nones_bool] = v
SetNones(m, v) ==
    [a \in DOMAIN m |-> [e \in DOMAIN m[a] |->
        IF nones_bool(a - 1, e - 1) THEN v ELSE m[a][e]]]

Abs(x) == IF x < 0 THEN 0 - x ELSE x

\* np.cumsum(np.abs(np.diff(m[act_idx:], axis=0)), axis=0) at row act, column elem
RECURSIVE diff(_, _, _, _)
diff(m, act_idx, act, elem) ==
    IF act <= act_idx THEN 0
    ELSE diff(m, act_idx, act - 1, elem)
         + Abs(Cell(m, act, elem) - Cell(m, act - 1, elem))

\* elem_idx: the columns of row act_idx that hold res_i and are not allocated
elem_idx(m, act_idx, res_i) ==
    {e \in AllElems(m) : Cell(m, act_idx, e) = res_i /\ << act_idx, e >> \notin allocated}

\* act_elem_idx: those of them that have an EAR in row act_idx
act_elem_idx(m, act_idx, res_i) ==
    {e \in elem_idx(m, act_idx, res_i) : ~nones_bool(act_idx, e)}

\* every later cell of the resources joins, whatever lies in between
ds_any_row(m, act_idx, res_i) ==
    {ae \in AllActs(m) \X elem_idx(m, act_idx, res_i) :
        /\ ae[1] > act_idx
        /\ Cell(m, ae[1], ae[2]) = res_i
        /\ ~nones_bool(ae[1], ae[2])}

\* no cell of a downstream action joins
ds_none(m, act_idx, res_i) ==
    {}

\* ds_act_idx, ds_elem_idx: the cells of downstream actions, in the columns of
\* elem_idx, that have an EAR and no change of resources since row act_idx
ds(m, act_idx, res_i) ==
    {ae \in AllActs(m) \X elem_idx(m, act_idx, res_i) :
        /\ ae[1] > act_idx
        /\ diff(m, act_idx, ae[1], ae[2]) = 0
        /\ ~nones_bool(ae[1], ae[2])}

\* EARs: the cells of the jobscript
EARs(m, act_idx, res_i) ==
    {<< act_idx, e >> : e \in act_elem_idx(m, act_idx, res_i)} \cup ds(m, act_idx, res_i)

\* EARs_by_elem, sorted by element: per element its actions, row act_idx first
\* and the downstream ones in row order
EARs_by_elem(cells) ==
    [e \in {ae[2] : ae \in cells} |-> Sorted({ae[1] : ae \in {x \in cells : x[2] = e}})]

\* np.all(allocated[~nones_bool])
AllAllocated(alloc) ==
    \A a \in AllActs(res_map), e \in AllElems(res_map) :
        nones_bool(a, e) \/ << a, e >> \in alloc

\* the next turn of the two loops, or the end of them
NextTurn(stop) ==
    IF stop \/ (js_res_pos = Len(resource_idx) /\ js_act_idx + 1 = NumActs(res_map))
    THEN js_pc' = "return" /\ UNCHANGED << js_act_idx, js_res_pos >>
    ELSE /\ js_pc' = "loop"
         /\ IF js_res_pos < Len(resource_idx)
            THEN js_res_pos' = js_res_pos + 1 /\ UNCHANGED js_act_idx
            ELSE js_res_pos' = 1 /\ js_act_idx' = js_act_idx + 1

\* a turn that `continue`s at once: res_i is the none value or not in the row
GroupSkip ==
    /\ js_pc = "loop"
    /\ LET res_i == resource_idx[js_res_pos]
       IN \/ res_i = -1
          \/ res_i \notin SeqRange(resource_map[js_act_idx + 1])
    /\ NextTurn(FALSE)
    /\ UNCHANGED << storeVars, laterVars, resolveVars, cacheVars, pairVars, createVars, res_map, resource_map,
                    allocated, jobscripts, submission_jobscripts >>

\* a turn that fills the nones and finds no EARs
GroupEmpty ==
    /\ js_pc = "loop"
    /\ LET res_i == resource_idx[js_res_pos]
           m == SetNones(resource_map, res_i)
       IN /\ res_i # -1
          /\ res_i \in SeqRange(resource_map[js_act_idx + 1])
          /\ EARs(m, js_act_idx, res_i) = {}
          /\ resource_map' = m
    /\ NextTurn(FALSE)
    /\ UNCHANGED << storeVars, laterVars, resolveVars, cacheVars, pairVars, createVars, res_map, allocated, jobscripts,
                    submission_jobscripts >>

\* a turn that puts its jobscript at the head of the list
GroupPrepend ==
    /\ js_pc = "loop"
    /\ LET res_i == resource_idx[js_res_pos]
           m == SetNones(resource_map, res_i)
           cells == EARs(m, js_act_idx, res_i)
       IN /\ res_i # -1
          /\ res_i \in SeqRange(resource_map[js_act_idx + 1])
          /\ cells # {}
          /\ resource_map' = m
          /\ jobscripts' = << [resources |-> res_i,
                               elements  |-> EARs_by_elem(cells)] >> \o jobscripts
          /\ allocated' = allocated \cup cells
          /\ NextTurn(AllAllocated(allocated \cup cells))
    /\ UNCHANGED << storeVars, laterVars, resolveVars, cacheVars, pairVars, createVars, res_map, submission_jobscripts >>

\* a turn that appends a jobscript
GroupAppend ==
    /\ js_pc = "loop"
    /\ LET res_i == resource_idx[js_res_pos]
           m == SetNones(resource_map, res_i)
           cells == EARs(m, js_act_idx, res_i)
       IN /\ res_i # -1
          /\ res_i \in SeqRange(resource_map[js_act_idx + 1])
          /\ cells # {}
          /\ resource_map' = m
          /\ jobscripts' = Append(jobscripts, [resources |-> res_i,
                                               elements  |-> EARs_by_elem(cells)])
          /\ allocated' = allocated \cup cells
          /\ NextTurn(AllAllocated(allocated \cup cells))
    /\ UNCHANGED << storeVars, laterVars, resolveVars, cacheVars, pairVars, createVars, res_map, submission_jobscripts >>

\* after the loops: resource_map[nones_bool] = none_val; return jobscripts
GroupReturn ==
    /\ js_pc = "return"
    /\ resource_map' = SetNones(resource_map, -1)
    /\ js_pc' = "grouped"
    /\ UNCHANGED << storeVars, laterVars, resolveVars, cacheVars, pairVars, createVars, res_map, allocated, jobscripts,
                    js_act_idx, js_res_pos, submission_jobscripts >>

\* generate_EAR_resource_map: the resources that the indices of res_map stand
\* for, all different
res == [i \in 0..8 |-> [resources_id |-> i, num_cores |-> i + 1]]

\* every jobscript given the resources of index 1
js_i_res1(js_dat) ==
    [task_actions  |-> Sorted(UNION {SeqRange(js_dat.elements[e]) :
                                        e \in DOMAIN js_dat.elements}),
     task_elements |-> Sorted(DOMAIN js_dat.elements),
     EARs          |-> UNION {{<< e, a >> : a \in SeqRange(js_dat.elements[e])} :
                                 e \in DOMAIN js_dat.elements},
     resources     |-> res[1]]

\* js_i: the jobscript built from one entry of the grouping; EARs holds the
\* (element, action) of every EAR in it
js_i(js_dat) ==
    [task_actions  |-> Sorted(UNION {SeqRange(js_dat.elements[e]) :
                                        e \in DOMAIN js_dat.elements}),
     task_elements |-> Sorted(DOMAIN js_dat.elements),
     EARs          |-> UNION {{<< e, a >> : a \in SeqRange(js_dat.elements[e])} :
                                 e \in DOMAIN js_dat.elements},
     resources     |-> res[js_dat.resources]]

\* the loop of _resolve_singular_jobscripts over the grouping of one task
ResolveSingular ==
    /\ js_pc = "grouped"
    /\ submission_jobscripts' = [k \in DOMAIN jobscripts |-> js_i(jobscripts[k])]
    /\ js_pc' = "done"
    /\ UNCHANGED << storeVars, laterVars, resolveVars, cacheVars, pairVars, createVars, res_map, resource_map, allocated,
                    jobscripts, js_act_idx, js_res_pos >>

\* the resource maps of the worked examples, and all the small ones
ExampleMaps == {examples[k].resources : k \in DOMAIN examples}
SmallMaps ==
    UNION {[1..n -> [1..c -> {-1} \cup 1..MaxRes]] : n \in 1..MaxActs, c \in 1..MaxJSElems}

InitJS ==
    /\ StoreInit /\ backend = "json" /\ ResolveIdle /\ CacheIdle /\ PairIdle /\ CreateIdle /\ LaterIdle
    /\ res_map \in ExampleMaps \cup SmallMaps
    /\ resource_map = res_map
    /\ allocated = {}
    /\ jobscripts = << >>
    /\ js_act_idx = 0 /\ js_res_pos = 1
    /\ submission_jobscripts = << >>
    /\ js_pc = "loop"

JSNext == GroupSkip \/ GroupEmpty \/ GroupAppend \/ GroupReturn \/ ResolveSingular

SpecJS == InitJS /\ [][JSNext]_vars

\* C9: for each worked example the grouping returns exactly the expected list
\* of jobscripts, in order; the 3x9 example gives its six jobscripts.
C9_WorkedExamples ==
    \A k \in DOMAIN examples :
        (js_pc \in {"grouped", "done"} /\ res_map = examples[k].resources)
            => jobscripts = examples[k].expected

\* the grouping of the 3x9 example has returned
C9_Witness ==
    /\ js_pc = "grouped"
    /\ res_map = examples[1].resources
    /\ NumActs(res_map) = 3 /\ NumElems(res_map) = 9
    /\ Len(jobscripts) = 6

\* C10: every EAR of a jobscript has the resources of the jobscript: every
\* (action, element) cell of it carries the jobscript's resource index.
C10_ResourceHomogeneity ==
    js_pc = "done" =>
        \A k \in DOMAIN submission_jobscripts :
            \A ea \in submission_jobscripts[k].EARs :
                /\ Cell(res_map, ea[2], ea[1]) = jobscripts[k].resources
                /\ res[Cell(res_map, ea[2], ea[1])] = submission_jobscripts[k].resources

\* jobscripts of different resources, one of them over several actions and
\* elements
C10_Witness ==
    /\ js_pc = "done"
    /\ \E k \in DOMAIN submission_jobscripts :
          /\ Len(submission_jobscripts[k].task_actions) > 1
          /\ Len(submission_jobscripts[k].task_elements) > 1
          /\ Cardinality(submission_jobscripts[k].EARs) > 2
    /\ \E k, l \in DOMAIN submission_jobscripts :
          submission_jobscripts[k].resources # submission_jobscripts[l].resources

\* the grouping has returned its list of jobscripts
Grouped == js_pc \in {"grouped", "done"}

\* the actions of element e in the k-th jobscript of the grouping
ActionsOf(k, e) == SeqRange(jobscripts[k].elements[e])

\* the action indices from the first to the last action of e in jobscript k
SpanOf(k, e) ==
    {a \in AllActs(res_map) :
        /\ \E lo \in ActionsOf(k, e) : lo <= a
        /\ \E hi \in ActionsOf(k, e) : a <= hi}

\* C23: in every jobscript of the grouping the actions of each element are a
\* contiguous run of action indices: no action index between two actions of
\* the element in the jobscript is missing from it.
C23_ContiguousActions ==
    Grouped =>
        \A k \in DOMAIN jobscripts :
            \A e \in DOMAIN jobscripts[k].elements :
                SpanOf(k, e) \subseteq ActionsOf(k, e)

\* C23, amended: in every jobscript of the grouping the actions of each element
\* are a contiguous run of the actions the element has an EAR for: an action
\* index between two actions of the element in the jobscript is either in the
\* jobscript or an action for which the element has no EAR (a sentinel cell).
C23_ContiguousAmongEARs ==
    Grouped =>
        \A k \in DOMAIN jobscripts :
            \A e \in DOMAIN jobscripts[k].elements :
                \A a \in SpanOf(k, e) :
                    a \in ActionsOf(k, e) \/ nones_bool(a, e)

\* one element is in a jobscript across an action it has no EAR for, and
\* another element has two EARs of the same resources, with an EAR of other
\* resources between them, in different jobscripts
C23_Witness ==
    /\ js_pc = "grouped"
    /\ \E k \in DOMAIN jobscripts : \E e \in DOMAIN jobscripts[k].elements :
          \E a \in SpanOf(k, e) : nones_bool(a, e)
    /\ \E e \in AllElems(res_map) : \E a, b, c \in AllActs(res_map) :
          /\ a < b /\ b < c
          /\ ~nones_bool(a, e) /\ ~nones_bool(b, e)
          /\ Cell(res_map, a, e) = Cell(res_map, c, e)
          /\ Cell(res_map, a, e) # Cell(res_map, b, e)
          /\ \A k \in DOMAIN jobscripts :
                e \in DOMAIN jobscripts[k].elements
                    => ~({a, c} \subseteq ActionsOf(k, e))

\* the first member action of the k-th jobscript, and the first element that
\* has it
FirstAction(k) ==
    LET acts == UNION {ActionsOf(k, e) : e \in DOMAIN jobscripts[k].elements}
    IN CHOOSE a \in acts : \A b \in acts : a <= b

FirstElement(k) ==
    LET es == {e \in DOMAIN jobscripts[k].elements : FirstAction(k) \in ActionsOf(k, e)}
    IN CHOOSE e \in es : \A f \in es : e <= f

----------------------------------------------------------------------------
\* Part 5: the two backends side by side.  The same mutations are applied to
\* a JSON store and to a Zarr store of a workflow with one task; an element
\* iteration is [EARs_initialised, actions, loop_idx, data_idx], its actions a
\* list of [act_idx, data_idx] entries and its data_idx the index of the
\* parameter its element was given.  A parameter value is 0 (None) or more.

MaxIters == 2
MaxOps == 6
NumSchemaActions == 2

HasTask(b) == stores[b].tasks + pendings[b].tasks > 0

\* dict.update on a list of [act_idx, data_idx] entries kept in insertion order
RECURSIVE UpdateActions(_, _)
UpdateActions(actions, new) ==
    IF new = << >> THEN actions
    ELSE LET e    == Head(new)
             hits == {k \in DOMAIN actions : actions[k].act_idx = e.act_idx}
         IN UpdateActions(IF hits = {} THEN Append(actions, e)
                          ELSE [k \in DOMAIN actions |->
                                   IF k \in hits THEN e ELSE actions[k]],
                          Tail(new))

\* get_task_elements: the iterations of the task as they read, the pending
\* ones after the persistent ones, with the pending EARs and loop indices.
\* JSON updates the actions and sets EARs_initialised; Zarr extends the
\* list of actions.
get_task_elements(b, doc, pend) ==
    [k \in 1..(Len(doc.iters) + Len(pend.element_iterations)) |->
        LET iter_i == IF k <= Len(doc.iters) THEN doc.iters[k]
                      ELSE pend.element_iterations[k - Len(doc.iters)]
            with_EARs ==
                IF (k - 1) \in DOMAIN pend.EARs
                THEN IF b = "json"
                     THEN [iter_i EXCEPT
                             !.actions = UpdateActions(@, pend.EARs[k - 1]),
                             !.EARs_initialised = TRUE]
                     ELSE [iter_i EXCEPT !.actions = @ \o pend.EARs[k - 1]]
                ELSE iter_i
        IN IF (k - 1) \in DOMAIN pend.loop_idx
           THEN [with_EARs EXCEPT !.loop_idx = @ \o pend.loop_idx[k - 1]]
           ELSE with_EARs]

\* _decompress_EARs: the actions as a dict from act_idx, the last entry of an
\* act_idx staying
ActionsDict(actions) ==
    [a \in {actions[k].act_idx : k \in DOMAIN actions} |->
        actions[SetMax({k \in DOMAIN actions : actions[k].act_idx = a})].data_idx]

\* the JSON document keeps its parameter data in a dict from index: a position
\* of params holding Absent is an index that is no key of the dict
Absent == -1

\* len() of the parameter data: of the dict its keys, of the array its length
NumParameters(b, params) ==
    IF b = "json" THEN Cardinality({k \in DOMAIN params : params[k] # Absent})
    ELSE Len(params)

\* _add_parameter_data: the index the new parameter gets
NewParameterIndex(b, doc, pend) ==
    IF b = "json"
    THEN NumParameters(b, doc.params) + Cardinality(DOMAIN pend.parameter_data)
    ELSE NumParameters(b, doc.params)

\* both stores buffering the value, none writing it when it is added
add_parameter_data_buffered(b, S, v) ==
    [S EXCEPT !.pend.parameter_data =
                  DictSet(@, NewParameterIndex(b, S.doc, S.pend), v)]

\* _add_parameter_data: JSON buffers the value; Zarr appends it to the base
\* array on disk and counts it
add_parameter_data(b, S, v) ==
    IF b = "json"
    THEN [S EXCEPT !.pend.parameter_data =
                       DictSet(@, NewParameterIndex(b, S.doc, S.pend), v)]
    ELSE [S EXCEPT !.doc.params = Append(@, v), !.pend.num_parameter_data = @ + 1]

\* add_EARs of iteration iter_idx: JSON updates the pending dict of the
\* iteration, Zarr extends its pending list
add_EARs(b, pend, iter_idx, new_EARs) ==
    LET old == IF iter_idx \in DOMAIN pend.EARs THEN pend.EARs[iter_idx] ELSE << >>
    IN [pend EXCEPT !.EARs = DictSet(@, iter_idx,
                                     IF b = "json" THEN UpdateActions(old, new_EARs)
                                     ELSE old \o new_EARs)]

\* _initialise_element_iter_EARs: one EAR per schema action
NewEARs(iter_i) ==
    [a \in 1..NumSchemaActions |-> [act_idx |-> a - 1, data_idx |-> iter_i.data_idx]]

\* WorkflowTask.initialise_EARs: every iteration that does not read as
\* initialised gets its EARs
RECURSIVE InitialiseFrom(_, _, _)
InitialiseFrom(b, S, k) ==
    LET iters == get_task_elements(b, S.doc, S.pend)
    IN IF k > Len(iters) THEN S
       ELSE InitialiseFrom(b,
                IF iters[k].EARs_initialised THEN S
                ELSE [S EXCEPT !.pend = add_EARs(b, @, k - 1, NewEARs(iters[k]))],
                k + 1)

initialise_EARs(b, S) == InitialiseFrom(b, S, 1)

\* WorkflowTask._add_element_set with one element of parameter value v: the
\* parameter is made persistent, the element and its iteration are buffered and
\* the EARs of the task are initialised
add_element_set(b, S, v) ==
    LET idx == NewParameterIndex(b, S.doc, S.pend)
        S1  == add_parameter_data(b, S, v)
        S2  == [S1 EXCEPT
                  !.pend.element_sets = @ + 1,
                  !.pend.elements = @ + 1,
                  !.pend.element_iterations =
                      Append(@, [EARs_initialised |-> FALSE, actions |-> << >>,
                                 loop_idx |-> << >>, data_idx |-> idx])]
    IN initialise_EARs(b, S2)

\* Workflow._add_empty_task: the template components, the template task and
\* the workflow task are buffered
add_empty_task(b, S) ==
    [S EXCEPT !.pend.template_components = @ + 1,
              !.pend.template_tasks = @ + 1,
              !.pend.tasks = @ + 1]

Both(b) == [doc |-> stores[b], pend |-> pendings[b]]

\* the iterations there are, by index
IterIdx == 0..(Len(stores["json"].iters) + Len(pendings["json"].element_iterations) - 1)

Mutation ==
    /\ commit_pos = 0
    /\ num_ops < MaxOps
    /\ num_ops' = num_ops + 1
    /\ flushed' = [b \in Backends |-> << >>]
    /\ UNCHANGED << storeVars, laterVars, resolveVars, cacheVars, jsVars, createVars, commit_doc, commit_pos >>

Apply(f(_, _)) ==
    /\ stores' = [b \in Backends |-> f(b, Both(b)).doc]
    /\ pendings' = [b \in Backends |-> f(b, Both(b)).pend]

\* Workflow._add_task of a task with one element set of one element
PairAddTask(v) ==
    /\ Mutation
    /\ ~HasTask("json")
    /\ LET f(b, S) == add_element_set(b, add_empty_task(b, S), v) IN Apply(f)
    /\ initialised' = [initialised EXCEPT !.pending = {0}]

\* WorkflowTask._add_elements of one element set of one element
PairAddElements(v) ==
    /\ Mutation
    /\ HasTask("json")
    /\ Cardinality(IterIdx) < MaxIters
    /\ LET f(b, S) == add_element_set(b, S, v) IN Apply(f)
    /\ initialised' = [initialised EXCEPT
                         !.pending = (IterIdx \cup {Cardinality(IterIdx)})
                                        \ initialised.committed]

\* WorkflowTask.initialise_EARs
PairInitialiseEARs ==
    /\ Mutation
    /\ HasTask("json")
    /\ LET f(b, S) == initialise_EARs(b, S) IN Apply(f)
    /\ initialised' = [initialised EXCEPT !.pending = IterIdx \ initialised.committed]

\* _init_task_loop for a new loop: every iteration of the task gets the loop's
\* index 0 buffered
init_task_loop(b, S) ==
    LET iters == get_task_elements(b, S.doc, S.pend)
        name  == S.doc.loops + S.pend.loops
    IN [S EXCEPT !.pend.loop_idx =
            [i \in DOMAIN @ \cup {k - 1 : k \in DOMAIN iters} |->
                (IF i \in DOMAIN @ THEN @[i] ELSE << >>) \o << name >>]]

\* Workflow._add_empty_loop: the template loop and the workflow loop are
\* buffered and the loop is initialised on the task
add_empty_loop(b, S) ==
    LET S1 == init_task_loop(b, S)
    IN [S1 EXCEPT !.pend.template_loops = @ + 1, !.pend.loops = @ + 1]

\* Workflow.add_loop of a loop over the task, with no iterations to add
PairAddLoop ==
    /\ Mutation
    /\ HasTask("json")
    /\ stores["json"].loops + pendings["json"].loops = 0
    /\ Apply(add_empty_loop)
    /\ UNCHANGED initialised

\* set_parameter(index, v): JSON buffers the value, Zarr writes it to the base
\* array
set_parameter(b, S, index, v) ==
    IF b = "json"
    THEN [S EXCEPT !.pend.parameter_data = DictSet(@, index, v)]
    ELSE [S EXCEPT !.doc.params[index + 1] = v]

\* Workflow.save_parameter inside a batch, on a parameter that both stores
\* take as unset
PairSetParameter(index, v) ==
    /\ Mutation
    /\ \A b \in Backends :
          index < Len(stores[b].params) /\ stores[b].params[index + 1] = 0
    /\ LET f(b, S) == set_parameter(b, S, index, v) IN Apply(f)
    /\ UNCHANGED initialised

\* PersistentStore.has_pending
pair_has_pending(b) == pendings[b] # EmptyPendings

\* reject_pending: Zarr first shortens the base array by the number of
\* parameters it appended; the pending buckets are emptied
PairReject ==
    /\ commit_pos = 0
    /\ num_ops < MaxOps /\ num_ops' = num_ops + 1
    /\ \E b \in Backends : pair_has_pending(b)
    /\ stores' = [stores EXCEPT !["zarr"].params =
                     SubSeq(@, 1, Len(@) - pendings["zarr"].num_parameter_data)]
    /\ pendings' = [b \in Backends |-> EmptyPendings]
    /\ initialised' = [initialised EXCEPT !.pending = {}]
    /\ flushed' = [b \in Backends |-> << >>]
    /\ UNCHANGED << storeVars, laterVars, resolveVars, cacheVars, jsVars, createVars, commit_doc, commit_pos >>

\* the template components taken before the tasks, the parameters by both stores
CommitOrderComponentsFirst(b) ==
    << "template_components", "template_tasks", "tasks", "element_sets",
       "elements", "element_iterations_idx", "element_iterations", "loop_idx",
       "EARs", "template_loops", "loops", "parameter_data" >>

\* the pending buckets in the order commit_pending takes them
CommitOrder(b) ==
    IF b = "json"
    THEN << "template_tasks", "tasks", "template_components", "element_sets",
            "elements", "element_iterations_idx", "element_iterations", "loop_idx",
            "EARs", "EAR_start_times", "EAR_end_times", "template_loops", "loops",
            "loops_added_iters", "parameter_data", "parameter_sources",
            "parameter_source_updates" >>
    ELSE << "template_tasks", "tasks", "template_components", "element_sets",
            "elements", "element_iterations_idx", "element_iterations", "loop_idx",
            "EARs", "template_loops", "loops" >>

\* the buckets that the Zarr commit writes to the arrays on disk as it takes
\* them; the others are merged into the metadata, which is put at the end
ZarrArrays == {"tasks", "elements", "element_iterations_idx", "element_iterations",
               "loop_idx", "EARs"}

\* pending parameter data put into the document's parameter data
MergeParameters(params, parameter_data) ==
    LET n == IF DOMAIN parameter_data = {} THEN Len(params)
             ELSE SetMax({Len(params), SetMax(DOMAIN parameter_data) + 1})
    IN [k \in 1..n |-> IF (k - 1) \in DOMAIN parameter_data THEN parameter_data[k - 1]
                       ELSE IF k <= Len(params) THEN params[k]
                       ELSE Absent]

\* one bucket of pend put into doc
Merge(b, doc, pend, bucket) ==
    CASE bucket = "template_tasks" -> [doc EXCEPT !.template_tasks = @ + pend.template_tasks]
      [] bucket = "tasks" ->
            IF b = "json"
            THEN [doc EXCEPT !.tasks = @ + pend.tasks,
                             !.num_added_tasks = @ + pend.tasks]
            ELSE [doc EXCEPT !.tasks = @ + pend.tasks]
      [] bucket = "template_components" ->
            [doc EXCEPT !.template_components = @ + pend.template_components]
      [] bucket = "element_sets" -> [doc EXCEPT !.element_sets = @ + pend.element_sets]
      [] bucket = "elements" -> [doc EXCEPT !.elements = @ + pend.elements]
      [] bucket = "element_iterations" ->
            [doc EXCEPT !.iters = @ \o pend.element_iterations]
      [] bucket = "loop_idx" ->
            [doc EXCEPT !.iters = [k \in DOMAIN @ |->
                IF (k - 1) \in DOMAIN pend.loop_idx
                THEN [@[k] EXCEPT !.loop_idx = @ \o pend.loop_idx[k - 1]]
                ELSE @[k]]]
      [] bucket = "EARs" ->
            [doc EXCEPT !.iters = [k \in DOMAIN @ |->
                IF (k - 1) \in DOMAIN pend.EARs
                THEN [@[k] EXCEPT
                        !.actions = IF b = "json" THEN UpdateActions(@, pend.EARs[k - 1])
                                    ELSE @ \o pend.EARs[k - 1],
                        !.EARs_initialised = TRUE]
                ELSE @[k]]]
      [] bucket = "template_loops" -> [doc EXCEPT !.template_loops = @ + pend.template_loops]
      [] bucket = "loops" -> [doc EXCEPT !.loops = @ + pend.loops]
      [] bucket = "parameter_data" ->
            [doc EXCEPT !.params = MergeParameters(@, pend.parameter_data)]
      [] OTHER -> doc

\* attrs.put(md): the metadata replaces the root attributes
PutMetadata(doc, md) ==
    [doc EXCEPT !.template_tasks = md.template_tasks,
                !.num_added_tasks = md.num_added_tasks,
                !.template_components = md.template_components,
                !.element_sets = md.element_sets,
                !.template_loops = md.template_loops,
                !.loops = md.loops]

\* the successful exit of the batch up to commit_pending's load
PairCommitBegin ==
    /\ commit_pos = 0
    /\ num_ops < MaxOps /\ num_ops' = num_ops + 1
    /\ \E b \in Backends : pair_has_pending(b)
    /\ commit_doc' = stores
    /\ commit_pos' = 1
    /\ flushed' = [b \in Backends |-> << >>]
    /\ UNCHANGED << storeVars, laterVars, resolveVars, cacheVars, jsVars, createVars, stores, pendings,
                    initialised >>

\* what one backend's commit does at position k of its bucket list: a bucket is
\* put into wk_data (JSON), or into the arrays on disk or md (Zarr); past the
\* last bucket the document is dumped (JSON) or the metadata put (Zarr), and the
\* pending buckets are emptied
CommitAt(b, k) ==
    LET order == CommitOrder(b)
        S == [doc |-> stores[b], pend |-> pendings[b], wk |-> commit_doc[b],
              log |-> flushed[b]]
    IN IF k <= Len(order)
       THEN LET md_bump == IF b = "zarr" /\ order[k] = "tasks"
                           THEN [S.wk EXCEPT !.num_added_tasks = @ + S.pend.tasks]
                           ELSE S.wk
            IN IF b = "zarr" /\ order[k] \in ZarrArrays
               THEN [S EXCEPT !.doc = Merge(b, @, S.pend, order[k]),
                              !.wk = md_bump,
                              !.log = Append(@, order[k])]
               ELSE [S EXCEPT !.wk = Merge(b, @, S.pend, order[k]),
                              !.log = Append(@, order[k])]
       ELSE IF k = Len(order) + 1
       THEN [S EXCEPT !.doc = IF b = "json" THEN S.wk ELSE PutMetadata(@, S.wk),
                      !.pend = EmptyPendings]
       ELSE S

LastCommitPos == Len(CommitOrder("json")) + 1

\* the next step of the two commits
PairCommitStep ==
    /\ commit_pos > 0
    /\ stores' = [b \in Backends |-> CommitAt(b, commit_pos).doc]
    /\ pendings' = [b \in Backends |-> CommitAt(b, commit_pos).pend]
    /\ commit_doc' = [b \in Backends |-> CommitAt(b, commit_pos).wk]
    /\ flushed' = [b \in Backends |-> CommitAt(b, commit_pos).log]
    /\ commit_pos' = IF commit_pos = LastCommitPos THEN 0 ELSE commit_pos + 1
    /\ initialised' = IF commit_pos = LastCommitPos
                      THEN [committed |-> initialised.committed \cup initialised.pending,
                            pending |-> {}]
                      ELSE initialised
    /\ UNCHANGED << storeVars, laterVars, resolveVars, cacheVars, jsVars, createVars, num_ops >>

InitPair == StoreInit /\ backend = "json" /\ ResolveIdle /\ CacheIdle /\ JSIdle /\ PairIdle /\ CreateIdle /\ LaterIdle

PairNext ==
    \/ \E v \in 0..1 : PairAddTask(v)
    \/ \E v \in 0..1 : PairAddElements(v)
    \/ PairInitialiseEARs
    \/ PairAddLoop
    \/ \E index \in 0..(MaxIters - 1) : PairSetParameter(index, 1)
    \/ PairReject
    \/ PairCommitBegin
    \/ PairCommitStep

SpecPair == InitPair /\ [][PairNext]_vars

\* the stored EAR entries of iteration i, on disk and pending
EARCount(b, i) ==
    (IF i < Len(stores[b].iters) THEN Len(stores[b].iters[i + 1].actions) ELSE 0)
    + (IF i \in DOMAIN pendings[b].EARs THEN Len(pendings[b].EARs[i]) ELSE 0)

InitialisesEARs ==
    \/ PairInitialiseEARs
    \/ \E v \in 0..1 : PairAddElements(v)

\* C11: a call of EAR initialisation adds no EAR to an iteration whose EARs an
\* earlier call has initialised, in the same batch or in a committed one.
C11_IdempotentInitialisation ==
    [][InitialisesEARs =>
          \A b \in Backends :
              \A i \in initialised.committed \cup initialised.pending :
                  EARCount(b, i)' = EARCount(b, i)]_vars

\* the kind of thing a pending bucket holds
BucketKind(bucket) ==
    CASE bucket \in {"template_tasks", "tasks"} -> "tasks"
      [] bucket = "template_components" -> "template components"
      [] bucket = "element_sets" -> "element sets"
      [] bucket = "elements" -> "elements"
      [] bucket \in {"element_iterations_idx", "element_iterations", "loop_idx"} -> "iterations"
      [] bucket \in {"EARs", "EAR_start_times", "EAR_end_times"} -> "EARs"
      [] bucket \in {"template_loops", "loops", "loops_added_iters"} -> "loops"
      [] bucket \in {"parameter_data", "parameter_sources", "parameter_source_updates"} -> "parameters"
      [] OTHER -> "submissions"

\* the kinds of the buckets of a log, in order, a run of one kind counted once
RECURSIVE Kinds(_)
Kinds(log) ==
    IF log = << >> THEN << >>
    ELSE LET rest == Kinds(Tail(log))
             kind == BucketKind(Head(log))
         IN IF rest # << >> /\ rest[1] = kind THEN rest ELSE << kind >> \o rest

\* a commit has run to its end
Committed == commit_pos = 0 /\ flushed["json"] # << >>

ParameterOnDisk(b, i) ==
    i < Len(stores[b].params) /\ stores[b].params[i + 1] # Absent

\* C13: at every point, the steps of a commit included, every EAR on disk
\* refers to a parameter index that is on disk.
C13_ParametersBeforeEARs ==
    \A b \in Backends :
        \A k \in DOMAIN stores[b].iters :
            \A a \in DOMAIN stores[b].iters[k].actions :
                ParameterOnDisk(b, stores[b].iters[k].actions[a].data_idx)

\* the Zarr commit has written the EARs of the batch and not yet put the
\* metadata, and an EAR on disk refers to a parameter added in the batch
C13_Witness ==
    /\ commit_pos > 0
    /\ "EARs" \in {flushed["zarr"][j] : j \in DOMAIN flushed["zarr"]}
    /\ pendings["zarr"].num_parameter_data > 0
    /\ \E k \in DOMAIN stores["zarr"].iters :
          \E a \in DOMAIN stores["zarr"].iters[k].actions :
              stores["zarr"].iters[k].actions[a].data_idx
                  >= Len(stores["zarr"].params) - pendings["zarr"].num_parameter_data

\* what a backend's store reads as: the counts, the iterations with their
\* actions as the dict that is read from them, and the parameter data by index
Readable(b) ==
    LET doc == stores[b]
    IN [tasks |-> doc.tasks, template_tasks |-> doc.template_tasks,
        num_added_tasks |-> doc.num_added_tasks,
        template_components |-> doc.template_components,
        element_sets |-> doc.element_sets, elements |-> doc.elements,
        template_loops |-> doc.template_loops, loops |-> doc.loops,
        iters |-> [k \in DOMAIN doc.iters |->
                      [doc.iters[k] EXCEPT !.actions = ActionsDict(@)]],
        params |-> [i \in {j \in 0..(Len(doc.params) - 1) : doc.params[j + 1] # Absent}
                       |-> doc.params[i + 1]]]

\* no commit is running and nothing is pending: the last batch, if any, was
\* committed or rejected
AtRest == commit_pos = 0 /\ \A b \in Backends : ~pair_has_pending(b)

\* C15: after the same mutations and the commit or the reject of their batch,
\* the JSON store and the Zarr store read the same.
C15_BackendEquivalence ==
    AtRest => Readable("json") = Readable("zarr")

----------------------------------------------------------------------------
\* Part 6: creating a workflow from a template and adding to it.  The workflow
\* directory is "new" once written; a workflow that was at the path before is
\* "old".  A task is known by the kind of its element set: "valid", or the
\* error that adding it raises.

MaxTmplTasks == 2
MaxNewTasks == 3
MaxNewElems == 3

\* Task._validate and ElementSet._validate, run by the constructors
ConstructionErrors ==
    {"TaskTemplateMultipleSchemaObjectives", "TaskTemplateMultipleInputValues"}

\* WorkflowTask.ensure_input_sources
InputSourceErrors == {"UnrequiredInputSources", "ExtraInputs", "MissingInputs"}

\* ElementSet._validate_against_template, run when the element set is given
\* its task
TemplateErrors == {"TaskTemplateInvalidNesting"}

ValidationErrors == ConstructionErrors \cup InputSourceErrors \cup TemplateErrors

\* Workflow._add_empty_task: the template components, the template task and the
\* workflow task are buffered
WorkflowAddEmptyTask(pend) ==
    [pend EXCEPT !.template_components = @ + 1, !.tasks = @ + 1]

\* WorkflowTask._add_element_set of an element set of the given kind, its
\* task_template not set before: ensure_input_sources, then
\* _make_new_elements_persistent, which buffers the parameters, then the
\* task_template is set, then the element set and the elements are buffered
WorkflowTaskAddElementSet(pend, kind) ==
    IF kind \in InputSourceErrors THEN [pend |-> pend, err |-> kind]
    ELSE LET persistent == [pend EXCEPT !.parameter_data = @ + 1]
         IN IF kind \in TemplateErrors THEN [pend |-> persistent, err |-> kind]
            ELSE [pend |-> [persistent EXCEPT !.element_sets = @ + 1,
                                              !.elements = @ + 1],
                  err |-> "none"]

\* Task(...): the constructor validates the task and its element sets
NewTask(kind) ==
    /\ create_pc = "start" /\ Len(tmpl_tasks) < MaxTmplTasks
    /\ IF kind \in ConstructionErrors
       THEN /\ create_err' = kind /\ create_pc' = "raised"
            /\ UNCHANGED tmpl_tasks
       ELSE /\ tmpl_tasks' = Append(tmpl_tasks, kind)
            /\ UNCHANGED << create_err, create_pc >>
    /\ UNCHANGED << storeVars, laterVars, resolveVars, cacheVars, jsVars, pairVars, wk_dir,
                    replaced_dir, new_pending, new_disk, creation >>

\* Workflow.from_template up to the batch: _write_empty_workflow renames what
\* is at the path if overwrite is given and raises ValueError otherwise, writes
\* the empty workflow, and the creation batch is entered
FromTemplate(overwrite) ==
    /\ create_pc = "start"
    /\ IF wk_dir # "none" /\ ~overwrite
       THEN /\ create_err' = "ValueError" /\ create_pc' = "raised"
            /\ UNCHANGED << wk_dir, replaced_dir, new_disk, creation >>
       ELSE /\ replaced_dir' = wk_dir
            /\ wk_dir' = "new"
            /\ new_disk' = NewWorkflow
            /\ creation' = TRUE
            /\ create_pc' = "batch"
            /\ UNCHANGED create_err
    /\ UNCHANGED << storeVars, laterVars, resolveVars, cacheVars, jsVars, pairVars, new_pending,
                    tmpl_tasks >>

\* Workflow._add_task of the next task: _add_empty_task, then _add_elements of
\* the task's element set
AddTemplateTask ==
    /\ create_pc = "batch" /\ tmpl_tasks # << >>
    /\ LET added == WorkflowTaskAddElementSet(WorkflowAddEmptyTask(new_pending),
                                              Head(tmpl_tasks))
       IN /\ new_pending' = added.pend
          /\ IF added.err = "none"
             THEN /\ tmpl_tasks' = Tail(tmpl_tasks)
                  /\ UNCHANGED << create_pc, create_err >>
             ELSE /\ create_pc' = "raising" /\ create_err' = added.err
                  /\ UNCHANGED tmpl_tasks
    /\ UNCHANGED << storeVars, laterVars, resolveVars, cacheVars, jsVars, pairVars, wk_dir,
                    replaced_dir, new_disk, creation >>

\* any other exception inside the batch
CreateFail ==
    /\ create_pc = "batch"
    /\ create_pc' = "raising" /\ create_err' = "Exception"
    /\ UNCHANGED << storeVars, laterVars, resolveVars, cacheVars, jsVars, pairVars, wk_dir,
                    replaced_dir, new_pending, new_disk, tmpl_tasks, creation >>

\* a handler that neither rejects what is pending nor touches the directories
BatchExceptKeepsAll ==
    /\ create_pc = "raising"
    /\ create_pc' = "raised"
    /\ UNCHANGED << storeVars, laterVars, resolveVars, cacheVars, jsVars, pairVars, wk_dir,
                    replaced_dir, new_pending, new_disk, tmpl_tasks, creation,
                    create_err >>

\* the `except` branch of batch_update: the pending changes are rejected; if
\* the batch was creating the workflow, delete_no_confirm removes the new
\* directory and reinstate_replaced_dir renames what was replaced back to the
\* path; the error is raised again
BatchExcept ==
    /\ create_pc = "raising"
    /\ new_pending' = NoPending
    /\ IF creation
       THEN /\ wk_dir' = replaced_dir
            /\ replaced_dir' = "none"
       ELSE UNCHANGED << wk_dir, replaced_dir >>
    /\ create_pc' = "raised"
    /\ UNCHANGED << storeVars, laterVars, resolveVars, cacheVars, jsVars, pairVars, new_disk,
                    tmpl_tasks, creation, create_err >>

\* the `else` branch of batch_update: with pending changes, the replaced
\* directory is removed and the changes are committed
BatchElse ==
    /\ create_pc = "batch" /\ tmpl_tasks = << >>
    /\ IF new_pending # NoPending
       THEN /\ replaced_dir' = "none"
            /\ new_disk' = [tasks |-> new_disk.tasks + new_pending.tasks,
                            parameter_data |-> new_disk.parameter_data
                                                 + new_pending.parameter_data,
                            elements |-> new_disk.elements + new_pending.elements]
            /\ new_pending' = NoPending
       ELSE UNCHANGED << replaced_dir, new_disk, new_pending >>
    /\ create_pc' = "done"
    /\ UNCHANGED << storeVars, laterVars, resolveVars, cacheVars, jsVars, pairVars, wk_dir,
                    tmpl_tasks, creation, create_err >>

\* Workflow.add_task(Task(...)) on the workflow, up to the batch
WorkflowAddTask(kind) ==
    /\ create_pc = "done" /\ new_disk.tasks < MaxNewTasks
    /\ IF kind \in ConstructionErrors
       THEN /\ create_err' = kind /\ create_pc' = "raised"
            /\ UNCHANGED << tmpl_tasks, creation >>
       ELSE /\ tmpl_tasks' = << kind >>
            /\ creation' = FALSE
            /\ create_pc' = "batch"
            /\ UNCHANGED create_err
    /\ UNCHANGED << storeVars, laterVars, resolveVars, cacheVars, jsVars, pairVars, wk_dir,
                    replaced_dir, new_pending, new_disk >>

\* WorkflowTask.add_elements of a new element set, up to the end of
\* _add_elements
WorkflowTaskAddElements(kind) ==
    /\ create_pc = "done"
    /\ new_disk.tasks > 0 /\ new_disk.elements < MaxNewElems
    /\ creation' = FALSE
    /\ IF kind \in ConstructionErrors
       THEN /\ create_err' = kind /\ create_pc' = "raised"
            /\ UNCHANGED new_pending
       ELSE LET added == WorkflowTaskAddElementSet(new_pending, kind)
            IN /\ new_pending' = added.pend
               /\ IF added.err = "none"
                  THEN create_pc' = "batch" /\ UNCHANGED create_err
                  ELSE create_pc' = "raising" /\ create_err' = added.err
    /\ UNCHANGED << storeVars, laterVars, resolveVars, cacheVars, jsVars, pairVars, wk_dir,
                    replaced_dir, new_disk, tmpl_tasks >>

InitCreate ==
    /\ StoreInit /\ ResolveIdle /\ CacheIdle /\ JSIdle /\ PairIdle /\ LaterIdle
    /\ wk_dir \in {"none", "old"} /\ replaced_dir = "none"
    /\ new_pending = NoPending /\ new_disk = NewWorkflow
    /\ tmpl_tasks = << >> /\ creation = FALSE
    /\ create_pc = "start" /\ create_err = "none"

CreateNext ==
    \/ \E kind \in {"valid"} \cup ConstructionErrors \cup InputSourceErrors :
          NewTask(kind)
    \/ \E overwrite \in BOOLEAN : FromTemplate(overwrite)
    \/ AddTemplateTask
    \/ CreateFail
    \/ BatchExcept
    \/ BatchElse
    \/ \E kind \in {"valid"} \cup ConstructionErrors \cup InputSourceErrors :
          WorkflowAddTask(kind)
    \/ \E kind \in {"valid"} \cup ValidationErrors : WorkflowTaskAddElements(kind)

SpecCreate == InitCreate /\ [][CreateNext]_vars

\* the handler of a failed creation batch runs
CreationFails == creation /\ create_pc = "raising" /\ create_pc' = "raised"

----------------------------------------------------------------------------
\* Part 7: the dependencies between jobscripts.  Every item of the task pathway
\* gives one jobscript; jobscript k has num_elems[k] elements, numbered from 0,
\* and every element has two EARs, of actions 0 and 1.  The EAR of action a of element j of
\* jobscript k has the key << k, j, a >>, which stands for its
\* (task insert ID, element index, EAR index).  An EAR of action a > 0 depends
\* on the EAR of action a - 1 of its element; deps holds << k, j, k2, j2 >>
\* where the first EAR of element j of jobscript k depends on the last EAR of
\* element j2 of the earlier jobscript k2.

MaxNumJS == 4
MaxDepElems == 2
MaxEdges == 2

NoEdge == << >>

\* the order of EAR_ID tuples
KeyLess(x, y) ==
    \/ x[1] < y[1]
    \/ x[1] = y[1] /\ x[2] < y[2]
    \/ x[1] = y[1] /\ x[2] = y[2] /\ x[3] < y[3]

RECURSIVE SortedKeys(_)
SortedKeys(S) ==
    IF S = {} THEN << >>
    ELSE LET x == CHOOSE y \in S : \A z \in S \ {y} : KeyLess(y, z)
         IN << x >> \o SortedKeys(S \ {x})

RECURSIVE Flatten(_)
Flatten(seqs) == IF seqs = << >> THEN << >> ELSE Head(seqs) \o Flatten(Tail(seqs))

\* the jobscript indices, the elements of a jobscript and the actions
JSIdx == DOMAIN dep_in.num_elems
ElemsOf(k) == 0..(dep_in.num_elems[k] - 1)
ActsOf == 0..1

\* EAR.get_EAR_dependencies() of the EAR with the given key, sorted
EARDependencies(key) ==
    IF key[3] > 0 THEN << << key[1], key[2], key[3] - 1 >> >>
    ELSE SortedKeys({<< d[3], d[4], 1 >> :
                        d \in {x \in dep_in.deps : x[1] = key[1] /\ x[2] = key[2]}})

\* EAR_deps_flat of element j of jobscript k
EAR_deps_flat(k, j) ==
    EARDependencies(<< k, j, 0 >>) \o EARDependencies(<< k, j, 1 >>)

\* js_i["EARs"] when the dependencies of element j are filtered: the EARs of
\* the elements up to j
EARsUpTo(k, j) == {<< k, j2, a >> : j2 \in 0..j, a \in ActsOf}

\* the filter the wrong way round: the dependencies inside the jobscript kept
EAR_deps_inside(k, j) ==
    LET Inside(d) == d \in EARsUpTo(k, j)
    IN SelectSeq(EAR_deps_flat(k, j), Inside)

\* EAR_deps_EAR_idx of element j of jobscript k: the dependencies that are not
\* in the jobscript
EAR_deps_EAR_idx(k, j) ==
    LET Outside(d) == d \notin EARsUpTo(k, j)
    IN SelectSeq(EAR_deps_flat(k, j), Outside)

\* js_i of jobscript k
NewJS(k) ==
    [task_insert_IDs |-> << k >>,
     num_elements    |-> dep_in.num_elems[k],
     EARs            |-> {<< k, j, a >> : j \in ElemsOf(k), a \in ActsOf},
     resource_hash   |-> dep_in.resource_hash[k],
     dependencies    |-> << >>]

\* all_element_deps: per jobscript and element with dependencies outside
all_element_deps ==
    LET WithDeps(k) == {j \in ElemsOf(k) : EAR_deps_EAR_idx(k, j) # << >>}
    IN [k \in {x \in JSIdx : WithDeps(x) # {}} |->
           [j \in WithDeps(k) |-> EAR_deps_EAR_idx(k, j)]]

\* a dict as the list of its items in insertion order: the keys, an item, and
\* d[k] = v, d.pop(k)
DepKeys(deps) == {deps[n].js_idx : n \in DOMAIN deps}

DepItem(deps, k) == deps[CHOOSE n \in DOMAIN deps : deps[n].js_idx = k]

DepSet(deps, k, item) ==
    IF k \in DepKeys(deps)
    THEN [n \in DOMAIN deps |-> IF deps[n].js_idx = k THEN item ELSE deps[n]]
    ELSE Append(deps, item)

DepPop(deps, k) ==
    LET Others(item) == item.js_idx # k
    IN SelectSeq(deps, Others)

\* an edge recorded once more, whether or not the producer is already there
AddEdgeAgain(deps, i, k, ek) ==
    Append(deps, [js_idx |-> k, js_element_mapping |-> (i :> << ek >>),
                  is_array |-> FALSE])

\* the element i of the dependent jobscript depends on element ek of jobscript
\* k: the producer is added if it is not there, and ek to the elements that i
\* maps to
AddEdge(deps, i, k, ek) ==
    IF k \notin DepKeys(deps)
    THEN Append(deps, [js_idx |-> k, js_element_mapping |-> (i :> << ek >>),
                       is_array |-> FALSE])
    ELSE LET item    == DepItem(deps, k)
             mapping == item.js_element_mapping
             mapped  == IF i \in DOMAIN mapping THEN mapping[i] ELSE << >>
         IN DepSet(deps, k,
                   [item EXCEPT !.js_element_mapping =
                       (i :> (IF ek \in SeqRange(mapped) THEN mapped
                              ELSE Append(mapped, ek))) @@ mapping])

\* the edges of jobscript js_idx, in the order in which they are found: for
\* each of its elements with dependencies, each dependency, and each other
\* jobscript that holds the dependency
EdgesOf(all_js, elem_deps, js_idx) ==
    LET elems == Sorted(DOMAIN elem_deps)
        others == Sorted(DOMAIN all_js \ {js_idx})
        Holders(d) ==
            LET Holds(k) == d \in all_js[k].EARs
            IN SelectSeq(others, Holds)
        OfDep(i, d) == [n \in DOMAIN Holders(d) |-> << i, Holders(d)[n], d[2] >>]
        OfElem(i) == Flatten([n \in DOMAIN elem_deps[i] |-> OfDep(i, elem_deps[i][n])])
    IN Flatten([n \in DOMAIN elems |-> OfElem(elems[n])])

RECURSIVE AddEdges(_, _)
AddEdges(deps, edges) ==
    IF edges = << >> THEN deps
    ELSE AddEdges(AddEdge(deps, Head(edges)[1], Head(edges)[2], Head(edges)[3]),
                  Tail(edges))

\* is this an array dependency?  Every element of the dependent jobscript maps
\* to one element of the producer, and these are all the producer's elements
IsArray(all_js, js_idx, item) ==
    LET mapping == item.js_element_mapping
    IN /\ DOMAIN mapping = 0..(all_js[js_idx].num_elements - 1)
       /\ \A i \in DOMAIN mapping : Len(mapping[i]) = 1
       /\ Sorted({mapping[i][1] : i \in DOMAIN mapping}) =
              [n \in 1..all_js[item.js_idx].num_elements |-> n - 1]
       /\ Cardinality(DOMAIN mapping) = all_js[item.js_idx].num_elements

\* resolve_jobscript_dependencies
resolve_jobscript_dependencies(all_js, elem_deps) ==
    [js_idx \in DOMAIN elem_deps |->
        LET found == AddEdges(<< >>, EdgesOf(all_js, elem_deps[js_idx], js_idx))
        IN [n \in DOMAIN found |->
               [found[n] EXCEPT !.is_array = IsArray(all_js, js_idx, found[n])]]]

\* one turn of the loop of merge_jobscripts_across_tasks: a jobscript with a
\* single dependency, which is an array dependency on a jobscript of the same
\* resources, is merged into that jobscript, and the dependencies of the later
\* jobscripts on it become dependencies on the jobscript it is merged into
MergeAt(st, js_idx) ==
    LET this == st.js[js_idx]
    IN IF Len(this.dependencies) # 1 THEN st
       ELSE LET dep_info == this.dependencies[1]
                js_j_idx == dep_info.js_idx
                js_j     == st.js[js_j_idx]
            IN IF ~(this.resource_hash = js_j.resource_hash /\ dep_info.is_array)
               THEN st
               ELSE [js |->
                        [x \in DOMAIN st.js |->
                            IF x = js_j_idx
                            THEN [js_j EXCEPT
                                    !.task_insert_IDs = @ \o this.task_insert_IDs,
                                    !.EARs = @ \cup this.EARs]
                            ELSE IF x > js_idx
                                    /\ js_idx \in DepKeys(st.js[x].dependencies)
                            THEN [st.js[x] EXCEPT !.dependencies =
                                    DepSet(DepPop(@, js_idx), js_j_idx,
                                           [DepItem(@, js_idx) EXCEPT
                                               !.js_idx = js_j_idx])]
                            ELSE st.js[x]],
                     is_merged |-> st.is_merged \cup {js_idx}]

RECURSIVE MergeFrom(_, _)
MergeFrom(st, todo) ==
    IF todo = << >> THEN st ELSE MergeFrom(MergeAt(st, Head(todo)), Tail(todo))

\* merge_jobscripts_across_tasks
merge_jobscripts_across_tasks(all_js) ==
    LET st == MergeFrom([js |-> all_js, is_merged |-> {}], Sorted(DOMAIN all_js))
    IN [x \in DOMAIN all_js \ st.is_merged |-> st.js[x]]

\* the jobscript without its resource_hash
ListItem(jsr) ==
    [task_insert_IDs |-> jsr.task_insert_IDs, num_elements |-> jsr.num_elements,
     EARs |-> jsr.EARs, dependencies |-> jsr.dependencies]

\* the list without the indices normalised
jobscripts_to_list_as_is(all_js) ==
    LET keys == Sorted(DOMAIN all_js)
    IN [n \in DOMAIN keys |-> ListItem(all_js[keys[n]])]

\* one turn of the loop of jobscripts_to_list: the jobscript of index js_idx
\* goes to list index new_idx, and the later jobscripts that depend on it are
\* given the new index
ReindexAt(all_js, js_idx, new_idx) ==
    IF js_idx = new_idx THEN all_js
    ELSE [x \in DOMAIN all_js |->
             IF x > js_idx /\ js_idx \in DepKeys(all_js[x].dependencies)
             THEN [all_js[x] EXCEPT !.dependencies =
                     DepSet(DepPop(@, js_idx), new_idx,
                            [DepItem(@, js_idx) EXCEPT !.js_idx = new_idx])]
             ELSE all_js[x]]

RECURSIVE ReindexFrom(_, _, _)
ReindexFrom(all_js, keys, n) ==
    IF n > Len(keys) THEN all_js
    ELSE ReindexFrom(ReindexAt(all_js, keys[n], n - 1), keys, n + 1)

\* jobscripts_to_list: the jobscripts as a list, their indices normalised to
\* list indices
jobscripts_to_list(all_js) ==
    LET keys == Sorted(DOMAIN all_js)
        done == ReindexFrom(all_js, keys, 1)
    IN [n \in DOMAIN keys |-> ListItem(done[keys[n]])]

\* submission_jobscripts of _resolve_singular_jobscripts
singular_jobscripts == [k \in JSIdx |-> NewJS(k)]

\* js[js_idx]["dependencies"] = js_deps[js_idx]
WithDependencies(all_js, deps) ==
    [js_idx \in DOMAIN all_js |->
        IF js_idx \in DOMAIN deps
        THEN [all_js[js_idx] EXCEPT !.dependencies = deps[js_idx]]
        ELSE all_js[js_idx]]

\* Workflow.resolve_jobscripts
ResolveJobscripts ==
    /\ dep_pc = "start"
    /\ element_deps' = all_element_deps
    /\ js_deps' = resolve_jobscript_dependencies(singular_jobscripts, element_deps')
    /\ js' = jobscripts_to_list(
                 merge_jobscripts_across_tasks(
                     WithDependencies(singular_jobscripts, js_deps')))
    /\ dep_pc' = "listed"
    /\ UNCHANGED << storeVars, earlierVars, runVars, lastVars, dep_in >>

\* the dependencies that n jobscripts of the given numbers of elements can have
PossibleDeps(n, num_elems) ==
    {d \in (0..(n - 1)) \X (0..(MaxDepElems - 1)) \X (0..(n - 1)) \X (0..(MaxDepElems - 1)) :
        /\ d[3] < d[1]
        /\ d[2] < num_elems[d[1]] /\ d[4] < num_elems[d[3]]}

InitDeps ==
    /\ StoreInit /\ backend = "json" /\ ResolveIdle /\ CacheIdle /\ JSIdle /\ PairIdle
    /\ CreateIdle /\ RunIdle /\ LastIdle
    /\ \E n \in 1..MaxNumJS :
       \E num_elems \in [0..(n - 1) -> 1..MaxDepElems] :
       \E resource_hash \in {h \in [0..(n - 1) -> {1, 2}] : h[0] = 1} :
       \E picked \in [1..MaxEdges -> PossibleDeps(n, num_elems) \cup {NoEdge}] :
          dep_in = [num_elems |-> num_elems, resource_hash |-> resource_hash,
                    deps |-> SeqRange(picked) \ {NoEdge}]
    /\ js = << >> /\ element_deps = << >> /\ js_deps = << >>
    /\ dep_pc = "start"

DepsNext == ResolveJobscripts

SpecDeps == InitDeps /\ [][DepsNext]_vars

\* resolve_jobscripts has returned
Resolved == dep_pc = "listed"

JobscriptOf(key) == key[1]

\* the EARs of all jobscripts
AllEARs == UNION {NewJS(k).EARs : k \in JSIdx}

\* C26: for every dependency of an EAR on a producer EAR that is in another
\* jobscript, the jobscript of the dependent EAR has the producer's jobscript
\* among its dependencies.
C26_CrossingEdgesRecorded ==
    Resolved =>
        \A key \in AllEARs :
            \A producer \in SeqRange(EARDependencies(key)) :
                (producer \in AllEARs /\ JobscriptOf(producer) # JobscriptOf(key))
                    => /\ JobscriptOf(key) \in DOMAIN js_deps
                       /\ JobscriptOf(producer) \in DepKeys(js_deps[JobscriptOf(key)])

\* a jobscript with dependencies on two other jobscripts and dependencies
\* inside itself
C26_Witness ==
    /\ Resolved
    /\ \E k \in DOMAIN js_deps : Cardinality(DepKeys(js_deps[k])) = 2

\* the place in the list of the jobscript that holds the EARs of what was
\* jobscript x before the merge
PlaceOf(x) == CHOOSE n \in DOMAIN js : x \in SeqRange(js[n].task_insert_IDs)

----------------------------------------------------------------------------
\* Part 8: the runs (EARs) of one task.  The schema of the task is a list of
\* actions; each may read parameter p1 ("inputs.p1"), write it ("outputs.p1")
\* and carry a rule on the element data at "inputs.p1".  Parameter p of the
\* workflow is run_parameters[p + 1]; its data is 0 while it is unset.  Run r
\* is action_EARs[r + 1], submission s is wk_submissions[s + 1].

MaxSchemaActs == 3
MaxRunIters == 2
\* initialise_EARs is not followed once the passes have added this number of
\* parameters (a pass that passes over an iteration can leave new unset
\* parameters behind)
MaxNewParameters == 4

KeyIn == "inputs.p1"
KeyOut == "outputs.p1"

\* no submission index, no EAR in a parameter source
None == -1

\* the values of the status of a submission: not submitted, all jobscripts
\* submitted, and some of them submitted (Workflow._submit collects the
\* jobscripts that were submitted and the SubmissionFailure of the others)
SubmissionStatuses == {"PENDING", "SUBMITTED", "PARTIALLY_SUBMITTED"}

\* a parameter is set
is_set(params, p) == params[p + 1].data # 0

\* Workflow._add_unset_parameter_data: the parameters with a new unset one
add_unset_parameter_data(params, source) ==
    Append(params, [data |-> 0, source |-> source])

\* the data index with the key set to the index
SetKey(data_idx, key, k_idx) ==
    [k \in DOMAIN data_idx \cup {key} |-> IF k = key THEN k_idx ELSE data_idx[k]]

\* WorkflowTask.test_action_rule for the rule of an action: "raise" when the
\* path does not exist, "unset" when it resolves to unset data
test_action_rule(rule, schema_data_idx, params) ==
    IF KeyIn \notin DOMAIN schema_data_idx THEN "ValueError"
    ELSE IF ~is_set(params, schema_data_idx[KeyIn]) THEN "UnsetParameterDataError"
    ELSE IF params[schema_data_idx[KeyIn] + 1].data = rule THEN "True"
    ELSE "False"

\* all(test_action_rule(i) for i in action.rules) of an action with at most
\* one rule; rule 0 is no rule
TestRules(action, schema_data_idx, params) ==
    IF action.rule = 0 THEN "True"
    ELSE test_action_rule(action.rule, schema_data_idx, params)

\* the one element of a set of one element (its use below binds a value that
\* is needed more than once to a name)
TheOne(S) == CHOOSE x \in S : TRUE

\* the loop of generate_data_index over the previous data indices for an
\* output key, from entry i on: every previous action that has the key gets a
\* new unset parameter for it, and k_idx is what the last of them had
RECURSIVE OutputsLoop(_, _, _, _, _)
OutputsLoop(all, params, EAR_ID, i, k_idx) ==
    IF i > Len(all) THEN [all_data_idx |-> all, params |-> params, k_idx |-> k_idx]
    ELSE IF KeyOut \in DOMAIN all[i].data_idx
         THEN TheOne({OutputsLoop(new_all, new_params, EAR_ID, i + 1,
                                  all[i].data_idx[KeyOut]) :
                  new_all \in {[all EXCEPT ![i].data_idx = SetKey(@, KeyOut, Len(params))]},
                  new_params \in {add_unset_parameter_data(params,
                                      [type |-> "EAR_output", EAR_ID |-> EAR_ID,
                                       action_idx |-> all[i].act_idx])}})
         ELSE OutputsLoop(all, params, EAR_ID, i + 1, k_idx)

\* the loop over the previous data indices for an input key: the output of
\* the same name of the last previous action that has one, or None
InputsLoop(all) ==
    LET has == {i \in DOMAIN all : KeyOut \in DOMAIN all[i].data_idx}
    IN  IF has = {} THEN None
        ELSE all[CHOOSE i \in has : \A j \in has : j <= i].data_idx[KeyOut]

\* the data index of the action after the loop for its output key has given
\* out, and what generate_data_index returns with it
DataIndexAfter(out, act_idx, EAR_ID, action, schema_data_idx) ==
    LET out_idx == IF out.k_idx = None THEN schema_data_idx[KeyOut] ELSE out.k_idx
        idx_1 == IF action.writes THEN SetKey(<< >>, KeyOut, out_idx) ELSE << >>
        found == InputsLoop(out.all_data_idx)
        allocate == action.reads /\ found = None /\ KeyIn \notin DOMAIN schema_data_idx
        in_idx == IF found # None THEN found
                  ELSE IF KeyIn \in DOMAIN schema_data_idx THEN schema_data_idx[KeyIn]
                  ELSE Len(out.params)
        idx_2 == IF action.reads THEN SetKey(idx_1, KeyIn, in_idx) ELSE idx_1
    IN  [all_data_idx |-> Append(out.all_data_idx,
                                 [act_idx |-> act_idx, EAR_ID |-> EAR_ID,
                                  data_idx |-> idx_2]),
         params |-> IF allocate
                    THEN add_unset_parameter_data(out.params,
                             [type |-> "EAR_output", EAR_ID |-> EAR_ID,
                              action_idx |-> None])
                    ELSE out.params,
         psrc_update |-> IF action.writes THEN {out_idx} ELSE {}]

\* Action.generate_data_index: output keys first, then input keys; adds the
\* data index of the action to all_data_idx and returns the parameters whose
\* source is to be updated
generate_data_index(act_idx, EAR_ID, action, schema_data_idx, all, params) ==
    TheOne({DataIndexAfter(out, act_idx, EAR_ID, action, schema_data_idx) :
        out \in {IF action.writes THEN OutputsLoop(all, params, EAR_ID, 1, None)
                 ELSE [all_data_idx |-> all, params |-> params, k_idx |-> None]}})

\* st after generate_data_index has returned gen for the run EAR_ID
WithDataIndex(st, gen, EAR_ID) ==
    [st EXCEPT
        !.all_data_idx = gen.all_data_idx,
        !.params = gen.params,
        !.param_src_updates =
            [p \in DOMAIN @ \cup gen.psrc_update |->
                IF p \in gen.psrc_update THEN EAR_ID ELSE @[p]]]

\* one turn of the loop of _initialise_element_iter_EARs, for action act of
\* the schema: the rules are tested, and if they hold the data index of the
\* action is generated
ActionStep(schema, schema_data_idx, num_EARs, act, st) ==
    LET test == TestRules(schema[act], schema_data_idx, st.params)
        EAR_ID == num_EARs + Len(st.all_data_idx)
    IN  IF test \in {"ValueError", "UnsetParameterDataError"}
        THEN [st EXCEPT !.exc = test]
        ELSE IF test = "False" THEN st
        ELSE TheOne({WithDataIndex(st, gen, EAR_ID) :
                 gen \in {generate_data_index(act - 1, EAR_ID, schema[act],
                              schema_data_idx, st.all_data_idx, st.params)}})

\* the loop of _initialise_element_iter_EARs over the schema's actions, from
\* action act on; st holds all_data_idx, the parameters, param_src_updates
\* and the exception that ended the loop
RECURSIVE ActionsLoop(_, _, _, _, _)
ActionsLoop(schema, schema_data_idx, num_EARs, act, st) ==
    IF act > Len(schema) \/ st.exc # "none" THEN st
    ELSE TheOne({ActionsLoop(schema, schema_data_idx, num_EARs, act + 1, next) :
             next \in {ActionStep(schema, schema_data_idx, num_EARs, act, st)}})

\* the runs of the loop's data indices, for the iteration
RunsOf(all, elem_iter_ID) ==
    [i \in DOMAIN all |->
        [elem_iter_ID |-> elem_iter_ID, action_idx |-> all[i].act_idx,
         data_idx |-> all[i].data_idx,
         metadata |-> [submission_idx |-> None, start_time |-> FALSE,
                       end_time |-> FALSE]]]

\* update_param_source for every item of param_src_updates
UpdateSources(params, updates) ==
    [p \in DOMAIN params |->
        IF p - 1 \in DOMAIN updates
        THEN [params[p] EXCEPT !.source.EAR_ID = updates[p - 1]]
        ELSE params[p]]

\* the loop over the actions for the iteration, from its start
LoopOf(w, elem_iter_ID) ==
    ActionsLoop(w.schema, w.iters[elem_iter_ID + 1].data_idx, Len(w.EARs), 1,
        [all_data_idx |-> << >>, params |-> w.params,
         param_src_updates |-> << >>, exc |-> "none"])

\* the workflow with the runs of the loop added to the store, and the
\* iteration marked as initialised if it was given runs
WithRuns(w, loop, elem_iter_ID) ==
    [w EXCEPT
        !.params = UpdateSources(loop.params, loop.param_src_updates),
        !.EARs = @ \o RunsOf(loop.all_data_idx, elem_iter_ID),
        !.iters[elem_iter_ID + 1].EARs_initialised = (@ \/ loop.all_data_idx # << >>),
        !.exc = loop.exc]

\* as _initialise_element_iter_EARs, with each action's run added to the store
\* at once, in the loop over the actions
initialise_element_iter_EARs_in_loop(w, elem_iter_ID) ==
    TheOne({WithRuns(w, loop, elem_iter_ID) : loop \in {LoopOf(w, elem_iter_ID)}})

\* WorkflowTask._initialise_element_iter_EARs on the workflow w: the runs are
\* added to the store after the loop, so only if no rule raised; the store
\* marks an iteration that was given runs as initialised.  Parameters that
\* generate_data_index allocated before a rule raised stay.
initialise_element_iter_EARs(w, elem_iter_ID) ==
    TheOne({IF loop.exc # "none"
            THEN [w EXCEPT !.params = loop.params, !.exc = loop.exc]
            ELSE WithRuns(w, loop, elem_iter_ID) :
        loop \in {LoopOf(w, elem_iter_ID)}})

\* initialise_EARs after _initialise_element_iter_EARs has left the workflow
\* as r for the iteration: UnsetParameterDataError is passed over
AfterIteration(r, elem_iter_ID) ==
    IF r.exc = "none" THEN [r EXCEPT !.initialised = Append(@, elem_iter_ID)]
    ELSE IF r.exc = "UnsetParameterDataError"
    THEN [r EXCEPT !.exc = "none", !.deferred = @ \cup {elem_iter_ID}]
    ELSE r

\* the loop of initialise_EARs over the iterations, from iteration i on; any
\* exception other than UnsetParameterDataError ends the loop
RECURSIVE initialise_EARs_from(_, _)
initialise_EARs_from(w, i) ==
    IF i > Len(w.iters) \/ w.exc # "none" THEN w
    ELSE IF w.iters[i].EARs_initialised THEN initialise_EARs_from(w, i + 1)
    ELSE TheOne({initialise_EARs_from(next, i + 1) :
             next \in {AfterIteration(r, i - 1) :
                          r \in {initialise_element_iter_EARs(w, i - 1)}}})

\* the workflow as the loops above take it
TheWorkflow ==
    [schema |-> schema_actions, iters |-> element_iters, params |-> run_parameters,
     EARs |-> action_EARs, exc |-> "none", initialised |-> << >>, deferred |-> {}]

\* WorkflowTask.initialise_EARs; init_result is what the caller gets, the list
\* of initialised iterations or the exception, and the iterations the pass
\* has passed over
InitialiseEARs ==
    /\ run_pc = "ready"
    /\ Len(run_parameters) < 2 * Len(element_iters) + MaxNewParameters
    /\ \E i \in DOMAIN element_iters : ~element_iters[i].EARs_initialised
    /\ \E w \in {initialise_EARs_from(TheWorkflow, 1)} :
           /\ element_iters' = w.iters
           /\ run_parameters' = w.params
           /\ action_EARs' = w.EARs
           /\ init_result' = [initialised |-> w.initialised, exc |-> w.exc,
                              deferred |-> w.deferred]
           /\ ever_deferred' = ever_deferred \cup w.deferred
    /\ UNCHANGED << storeVars, earlierVars, depVars, lastVars, schema_actions, wk_submissions,
                    run_pc >>

\* Workflow.save_parameter by the run that produces the input of an
\* iteration: the unset parameter is set
SaveParameter(p, value) ==
    /\ run_pc = "ready"
    /\ p \in DOMAIN run_parameters /\ run_parameters[p].data = 0
    /\ run_parameters[p].source.type = "upstream"
    /\ run_parameters' = [run_parameters EXCEPT ![p].data = value]
    /\ UNCHANGED << storeVars, earlierVars, depVars, lastVars, schema_actions, element_iters,
                    action_EARs, wk_submissions, init_result, ever_deferred, run_pc >>

\* Workflow.add_submission: the runs that are in no submission get the index
\* of a new submission; without such runs no submission is added
AddSubmission ==
    /\ run_pc = "ready"
    /\ \E r \in DOMAIN action_EARs : action_EARs[r].metadata.submission_idx = None
    /\ action_EARs' =
          [r \in DOMAIN action_EARs |->
              IF action_EARs[r].metadata.submission_idx = None
              THEN [action_EARs[r] EXCEPT !.metadata.submission_idx = Len(wk_submissions)]
              ELSE action_EARs[r]]
    /\ wk_submissions' = Append(wk_submissions, "PENDING")
    /\ UNCHANGED << storeVars, earlierVars, depVars, lastVars, schema_actions, element_iters,
                    run_parameters, init_result, ever_deferred, run_pc >>

\* Submission.submit of a submission that needs it: all of its jobscripts are
\* submitted, or some of them
Submit(s, status) ==
    /\ run_pc = "ready"
    /\ s \in DOMAIN wk_submissions /\ wk_submissions[s] # "SUBMITTED"
    /\ status \in SubmissionStatuses \ {"PENDING"}
    /\ wk_submissions' = [wk_submissions EXCEPT ![s] = status]
    /\ UNCHANGED << storeVars, earlierVars, depVars, lastVars, schema_actions, element_iters,
                    run_parameters, action_EARs, init_result, ever_deferred, run_pc >>

\* the run is the next of its submission to execute: the runs before it of
\* the same submission have ended
NextToRun(r) ==
    \A q \in 1..(r - 1) :
        action_EARs[q].metadata.submission_idx = action_EARs[r].metadata.submission_idx
            => action_EARs[q].metadata.end_time

\* Workflow.set_EAR_start, called by the jobscript of a submitted submission
SetEARStart(r) ==
    /\ run_pc = "ready"
    /\ r \in DOMAIN action_EARs
    /\ action_EARs[r].metadata.submission_idx # None
    /\ wk_submissions[action_EARs[r].metadata.submission_idx + 1] # "PENDING"
    /\ ~action_EARs[r].metadata.start_time /\ NextToRun(r)
    /\ action_EARs' = [action_EARs EXCEPT ![r].metadata.start_time = TRUE]
    /\ UNCHANGED << storeVars, earlierVars, depVars, lastVars, schema_actions, element_iters,
                    run_parameters, wk_submissions, init_result, ever_deferred, run_pc >>

\* Workflow.set_EAR_end, called by the jobscript after the run's commands
SetEAREnd(r) ==
    /\ run_pc = "ready"
    /\ r \in DOMAIN action_EARs
    /\ action_EARs[r].metadata.start_time /\ ~action_EARs[r].metadata.end_time
    /\ action_EARs' = [action_EARs EXCEPT ![r].metadata.end_time = TRUE]
    /\ UNCHANGED << storeVars, earlierVars, depVars, lastVars, schema_actions, element_iters,
                    run_parameters, wk_submissions, init_result, ever_deferred, run_pc >>

\* ElementActionRun.submission_status
submission_status(EAR, submissions) ==
    IF EAR.metadata.end_time THEN "COMPLETE"
    ELSE IF EAR.metadata.start_time THEN "RUNNING"
    ELSE IF EAR.metadata.submission_idx # None
              /\ submissions[EAR.metadata.submission_idx + 1] = "PENDING"
         THEN "PREPARED"
    ELSE IF EAR.metadata.submission_idx # None
              /\ submissions[EAR.metadata.submission_idx + 1] = "SUBMITTED"
         THEN "SUBMITTED"
    ELSE "PENDING"

\* the actions a schema can have: each writes p1, and may read it and have a
\* rule
SchemaActions == [reads : BOOLEAN, writes : {TRUE}, rule : 0..1]

\* the inputs an iteration can have: 0 unset, from a run upstream; 1 the
\* value given in the template; None no input p1
IterInputs == {None, 0, 1}

\* a task of one to MaxRunIters iterations, none initialised, each with an
\* output parameter (unset) and an input parameter; the actions of the schema
\* are among kinds and the inputs among inputs
InitRunsOf(kinds, inputs) ==
    /\ StoreInit /\ backend = "json" /\ ResolveIdle /\ CacheIdle /\ JSIdle /\ PairIdle
    /\ CreateIdle /\ DepIdle /\ LastIdle
    /\ \E n \in 1..MaxSchemaActs : schema_actions \in [1..n -> kinds]
    /\ \E n \in 1..MaxRunIters : \E input \in [1..n -> inputs] :
          /\ element_iters =
                [i \in 1..n |->
                    [data_idx |-> IF input[i] = None
                                  THEN SetKey(<< >>, KeyOut, 2 * i - 1)
                                  ELSE SetKey(SetKey(<< >>, KeyOut, 2 * i - 1),
                                              KeyIn, 2 * i - 2),
                     EARs_initialised |-> FALSE]]
          /\ run_parameters =
                [p \in 1..(2 * n) |->
                    IF p % 2 = 0
                    THEN [data |-> 0,
                          source |-> [type |-> "EAR_output", EAR_ID |-> None,
                                      action_idx |-> None]]
                    ELSE [data |-> IF input[(p + 1) \div 2] = None THEN 1
                                   ELSE input[(p + 1) \div 2],
                          source |-> [type |-> IF input[(p + 1) \div 2] = 0
                                               THEN "upstream" ELSE "local_input",
                                      EAR_ID |-> None, action_idx |-> None]]]
    /\ action_EARs = << >> /\ wk_submissions = << >>
    /\ init_result = [initialised |-> << >>, exc |-> "none", deferred |-> {}]
    /\ ever_deferred = {}
    /\ run_pc = "ready"

InitRuns == InitRunsOf(SchemaActions, IterInputs)

\* the initialisation of the runs of the task as the parameters get set
RunsNext ==
    \/ InitialiseEARs
    \/ \E p \in 1..(2 * MaxRunIters), value \in 1..2 : SaveParameter(p, value)

SpecRuns == InitRuns /\ [][RunsNext]_vars

\* a task whose actions all read and write p1 and have no rule, with inputs
\* that are set or come from a run upstream
InitSubmit ==
    InitRunsOf({[reads |-> TRUE, writes |-> TRUE, rule |-> 0]}, {0, 1})

\* the runs of the task from their initialisation to their end
SubmitNext ==
    \/ InitialiseEARs
    \/ \E p \in 1..(2 * MaxRunIters) : SaveParameter(p, 1)
    \/ AddSubmission
    \/ \E s \in 1..MaxRunIters, status \in SubmissionStatuses : Submit(s, status)
    \/ \E r \in 1..(MaxSchemaActs * MaxRunIters) : SetEARStart(r)
    \/ \E r \in 1..(MaxSchemaActs * MaxRunIters) : SetEAREnd(r)

SpecSubmit == InitSubmit /\ [][SubmitNext]_vars

\* the evaluation of the rules of the actions for iteration elem_iter_ID raises
\* UnsetParameterDataError: the iteration is not initialised, its input p1 is
\* unset, and the first action with a rule raises (an action without a rule
\* raises nothing)
RaisesUnset(elem_iter_ID) ==
    LET iter == element_iters[elem_iter_ID + 1]
    IN  /\ ~iter.EARs_initialised
        /\ KeyIn \in DOMAIN iter.data_idx
        /\ ~is_set(run_parameters, iter.data_idx[KeyIn])
        /\ \E a \in DOMAIN schema_actions : schema_actions[a].rule # 0

\* the runs of the iteration
EARsOfIter(runs, elem_iter_ID) ==
    {r \in DOMAIN runs : runs[r].elem_iter_ID = elem_iter_ID}

\* C28: if evaluating an action rule for an iteration raises
\* UnsetParameterDataError, the pass of initialise_EARs creates no EAR for any
\* action of that iteration, leaves the iteration not initialised, and raises
\* no exception to the caller for it; an iteration that an earlier pass has
\* passed over is taken up again by the next pass that reaches it.
C28_UnsetDefersInitialisation ==
    [][InitialiseEARs =>
          /\ \A i \in DOMAIN element_iters :
                RaisesUnset(i - 1) =>
                    /\ EARsOfIter(action_EARs', i - 1) = {}
                    /\ ~element_iters'[i].EARs_initialised
                    /\ i - 1 \notin SeqRange(init_result'.initialised)
          /\ init_result'.exc # "UnsetParameterDataError"
          /\ (\E i \in DOMAIN element_iters : RaisesUnset(i - 1)
                /\ \A j \in DOMAIN element_iters :
                      KeyIn \in DOMAIN element_iters[j].data_idx)
                => init_result'.exc = "none"
          /\ \A i \in DOMAIN element_iters :
                (i - 1 \in ever_deferred /\ ~element_iters[i].EARs_initialised
                   /\ init_result'.exc = "none")
                    => i - 1 \in SeqRange(init_result'.initialised)
                                     \cup init_result'.deferred
      ]_vars

\* an iteration that a pass has passed over, after an action without a rule
\* and before an action whose rule raised, has been initialised by a later
\* pass, which gave it a run for each of the two actions
C28_Witness ==
    \E i \in DOMAIN element_iters :
        /\ i - 1 \in ever_deferred
        /\ element_iters[i].EARs_initialised
        /\ i - 1 \in SeqRange(init_result.initialised)
        /\ Len(schema_actions) >= 2
        /\ schema_actions[1].rule = 0 /\ schema_actions[2].rule # 0
        /\ Cardinality(EARsOfIter(action_EARs, i - 1)) >= 2

\* the runs of the iteration, in the order of their actions
IterRuns(elem_iter_ID) ==
    SelectSeq(action_EARs, LAMBDA EAR : EAR.elem_iter_ID = elem_iter_ID)

\* every action of the schema reads and writes p1, and the iteration, which has
\* a schema-level input p1, has a run of every action
AllModify(elem_iter_ID) ==
    /\ Len(schema_actions) >= 2
    /\ \A a \in DOMAIN schema_actions : schema_actions[a].reads /\ schema_actions[a].writes
    /\ KeyIn \in DOMAIN element_iters[elem_iter_ID + 1].data_idx
    /\ Len(IterRuns(elem_iter_ID)) = Len(schema_actions)

\* C29: for an iteration whose schema has consecutive actions that each read
\* and write the same parameter, the first action's input index is the
\* schema-level input index, each later action's input index is the preceding
\* action's output index, and the last action's output index is the
\* schema-level output index.
C29_ChainedDataIndices ==
    \A i \in DOMAIN element_iters :
        AllModify(i - 1) =>
            LET runs == IterRuns(i - 1)
                schema_data_idx == element_iters[i].data_idx
            IN  /\ runs[1].data_idx[KeyIn] = schema_data_idx[KeyIn]
                /\ \A a \in 2..Len(runs) :
                      runs[a].data_idx[KeyIn] = runs[a - 1].data_idx[KeyOut]
                /\ runs[Len(runs)].data_idx[KeyOut] = schema_data_idx[KeyOut]

\* the submission of the run has been dispatched
Dispatched(EAR) == wk_submissions[EAR.metadata.submission_idx + 1] # "PENDING"

\* C30: the derived submission status of an EAR is PENDING exactly while no
\* submission index is set on it; once a submission index is set it is
\* PREPARED while that submission has not been dispatched, and otherwise
\* SUBMITTED, RUNNING or COMPLETE according to whether its start and end
\* timestamps are present.
C30_DerivedStatus ==
    \A r \in DOMAIN action_EARs :
        LET EAR == action_EARs[r]
            status == submission_status(EAR, wk_submissions)
        IN  /\ (status = "PENDING") <=> (EAR.metadata.submission_idx = None)
            /\ EAR.metadata.submission_idx # None =>
                  status = IF ~Dispatched(EAR) THEN "PREPARED"
                           ELSE IF EAR.metadata.end_time THEN "COMPLETE"
                           ELSE IF EAR.metadata.start_time THEN "RUNNING"
                           ELSE "SUBMITTED"

----------------------------------------------------------------------------
Init == StoreInit /\ ResolveIdle /\ CacheIdle /\ JSIdle /\ PairIdle /\ CreateIdle /\ LaterIdle

Main == 1
Peer == 2

Next ==
    \/ Reload(Main)
    \/ \E cached \in BOOLEAN : Enter(Main, cached)
    \/ \E n \in 0..MaxElems : AddTask(Main, n)
    \/ \E t \in 0..(MaxTasks - 1), n \in 1..MaxElems : AddElements(Main, t, n)
    \/ \E v \in 0..MaxVal : AddParameter(Main, v)
    \/ \E i \in 0..(MaxParams - 1), v \in 1..MaxVal : SetParameter(Main, i, v)
    \/ Fail(Main)
    \/ ExitNested(Main)
    \/ ExitEmpty(Main)
    \/ ExitConflict(Main)
    \/ CommitBegin(Main)
    \/ CommitWrite(Main)
    \/ CommitFail(Main)
    \/ \E m \in 0..1 : OobAddTask(Peer, m)
    \/ \E i \in 0..(MaxParams - 1) : OobSaveParameter(Peer, i, 1)

Spec == Init /\ [][Next]_vars

\* Two engine processes running add_task concurrently, step by step.
RaceNext ==
    \E p \in Procs :
        \/ Reload(p)
        \/ \E cached \in BOOLEAN : Enter(p, cached)
        \/ AddTask(p, 0)
        \/ ExitConflict(p)
        \/ CommitBegin(p)
        \/ CommitWrite(p)

SpecRace == Init /\ [][RaceNext]_vars

----------------------------------------------------------------------------
\* Properties of the transactional store.

\* an exception has just ended p's batch, and nobody else wrote meanwhile
Raised(p) ==
    /\ err[p] \in {"Exception", "KeyError", "RuntimeError"}
    /\ scopes[p] = <<>> /\ ~dirty[p]

\* C1: when an exception ends a batch, the workflow in memory and as read back
\* from the store is what it was when the batch began.
C1_BatchAtomicity ==
    Raised(Main) =>
        /\ ReadBack(Main) = snap[Main].readback
        /\ wk_tasks[Main] = snap[Main].tasks

\* p's batch reaches the end of its outermost scope with pending changes and
\* goes on to commit_pending
CommitStarts(p) == pc[p] = "run" /\ pc'[p] = "write"

\* C2: a batch with pending changes on a Workflow object that was loaded before
\* another process modified the disk never gets to commit_pending (it raises
\* WorkflowBatchUpdateFailedError instead).
C2_StaleCommitRaises ==
    [][stale[Main] => ~CommitStarts(Main)]_vars

\* C3: every task whose commit completed is in the workflow on disk, whatever
\* the interleaving of the two processes' load, check and write steps.
C3_NoLostCommit ==
    acked \subseteq {disk.tasks[i].tmpl : i \in DOMAIN disk.tasks}

\* the parameter holds a value, committed or set earlier in the current batch
AlreadySet(p, i) ==
    IF backend = "json"
    THEN get_parameter_data(p, i) > 0
    ELSE i \in DOMAIN disk.params /\ disk.params[i] # 0

\* C4: set_parameter on an index that is already set raises an error and does
\* not give the parameter the new value.
C4_SingleAssignment ==
    [][\A i \in 0..(MaxParams - 1), v \in 1..MaxVal :
          (AlreadySet(Main, i) /\ SetParameter(Main, i, v)) =>
              /\ err'[Main] \in {"RuntimeError", "KeyError"}
              /\ ~(AlreadySet(Main, i)' /\ get_parameter_data(Main, i)' = v
                    /\ get_parameter_data(Main, i) # v)]_vars

\* p leaves a scope that was entered inside another one, and not by an exception
LeavesInner(p) ==
    /\ pc[p] = "run" /\ Len(scopes[p]) > 1
    /\ Len(scopes'[p]) = Len(scopes[p]) - 1

\* commit_pending of p's batch writes, at the end of its outermost scope
CommitsOutermost(p) == pc[p] = "write" /\ err'[p] = "committed"

\* C14: leaving a scope entered inside another one changes neither the disk
\* nor what is pending, in the store or in the workflow, and the batch stays
\* open; the commit at the end of the outermost scope writes every pending
\* task and parameter, whichever scope buffered it, and leaves nothing pending.
C14_NestedBatchNoOp ==
    [][\A p \in Procs :
          /\ LeavesInner(p) =>
                /\ disk' = disk
                /\ store_pending'[p] = store_pending[p]
                /\ wk_tasks'[p] = wk_tasks[p]
                /\ wk_pending'[p] = wk_pending[p]
                /\ in_batch_mode'[p] /\ scopes'[p] # <<>>
          /\ CommitsOutermost(p) =>
                /\ \A j \in DOMAIN store_pending[p].tasks :
                      \E i \in DOMAIN disk'.tasks :
                          disk'.tasks[i].tmpl = store_pending[p].tasks[j].tmpl
                /\ \A i \in DOMAIN store_pending[p].parameter_data :
                      /\ i \in DOMAIN disk'.params
                      /\ disk'.params[i] = store_pending[p].parameter_data[i]
                /\ ~has_pending(p)' /\ wk_pending'[p] = <<>>]_vars

\* the commit at the end of the outermost scope is under way with one task
\* buffered in the outer scope and one in a scope inside it, which was left
C14_Witness ==
    /\ pc[Main] = "write" /\ Len(scopes[Main]) = 1
    /\ \E j, k \in DOMAIN store_pending[Main].tasks :
          /\ store_pending[Main].tasks[j].depth = 1
          /\ store_pending[Main].tasks[k].depth = 2

\* the Zarr store of p rejects a batch in which n parameters were added, and
\* nobody else wrote meanwhile
ZarrRejects(p, n) ==
    /\ backend = "zarr" /\ ~dirty[p]
    /\ n > 0 /\ store_pending[p].num_parameter_data = n
    /\ scopes[p] # <<>> /\ scopes'[p] = <<>>
    /\ err'[p] \in {"Exception", "KeyError", "RuntimeError"}
    /\ store_pending'[p] = EmptyPending

\* C16: the reject of the Zarr store takes the parameter arrays back to their
\* length before the batch, removes the array groups of the parameters added
\* in the batch and no other, and leaves the earlier parameters as they were.
C16_RejectDeletesOwnChunks ==
    [][\A n \in 1..MaxParams :
          ZarrRejects(Main, n) =>
              LET before == NumParams(disk) - n
              IN /\ DOMAIN disk'.params = 0..(before - 1)
                 /\ \A i \in 0..(before - 1) : disk'.params[i] = disk.params[i]
                 /\ disk'.groups = disk.groups \ (before..(NumParams(disk) - 1))]_vars

\* C18: after a batch has failed at its commit with
\* WorkflowBatchUpdateFailedError, the store has nothing pending and the tasks
\* in memory are those the workflow had when the batch began.
C18_ConflictDiscardsPending ==
    err[Main] = "WorkflowBatchUpdateFailedError" =>
        /\ ~has_pending(Main)
        /\ wk_pending[Main] = <<>>
        /\ wk_tasks[Main] = snap[Main].tasks

---------------------------------------------------------------------------
\* Further properties of the dependency cache (cache.py)

\* C38: no element is in its own set of direct dependents or of recursive
\* dependents in the DependencyCache, also when a later action of an element
\* consumes the output of an earlier action of the same element.
C38_NoSelfDependent ==
    cache_pc = "built" =>
        \A e \in DOMAIN dep_cache.elem_elem_dependents :
            /\ e \notin dep_cache.elem_elem_dependents[e]
            /\ e \notin dep_cache.elem_elem_dependents_rec[e]

---------------------------------------------------------------------------
\* Further properties of the batch scopes and of the parameter indices
\* (workflow.py batch_update, json.py, zarr.py)

\* C32: after every exit from an outermost batch_update scope (normal exit
\* with pending changes, normal exit with nothing pending, exception inside
\* the scope, conflict detected at the commit) the workflow is no longer in
\* batch mode.
C32_ExitLeavesBatchMode ==
    [][\A p \in Procs :
          (scopes[p] # <<>> /\ scopes[p][1].outer /\ scopes'[p] = <<>>)
              => ~in_batch_mode'[p]]_vars

\* the indices of the parameters that store b holds, committed and pending
ParameterIndices(b) ==
    IF b = "json"
    THEN {k - 1 : k \in {j \in DOMAIN stores[b].params : stores[b].params[j] # Absent}}
         \cup DOMAIN pendings[b].parameter_data
    ELSE {k - 1 : k \in DOMAIN stores[b].params}

\* C34: parameter indices are dense: after any interleaving of add-parameter
\* and set_parameter calls within a batch, the set of all parameter indices
\* (committed plus pending) is exactly 0..n-1, with no gaps.
C34_DenseParameterIndices ==
    commit_pos = 0 =>
        \A b \in Backends :
            ParameterIndices(b) = 0..(Cardinality(ParameterIndices(b)) - 1)

---------------------------------------------------------------------------
\* Further properties of the EAR initialisation and of the run lifecycle
\* (task.py, actions.py, workflow.py)

\* C37: a pass of initialise_EARs that ends up deferred for an iteration
\* leaves the parameter store unchanged on behalf of that iteration: a pass
\* that defers every iteration it takes up allocates no new parameter and
\* patches no parameter source.
C37_DeferredPassLeavesParameters ==
    [][(/\ InitialiseEARs
        /\ init_result'.exc = "none"
        /\ \A i \in DOMAIN element_iters :
               ~element_iters[i].EARs_initialised => i - 1 \in init_result'.deferred)
          => run_parameters' = run_parameters]_vars

\* the place of a status in PENDING, PREPARED, SUBMITTED, RUNNING, COMPLETE
StatusRank(status) ==
    CASE status = "PENDING" -> 0
      [] status = "PREPARED" -> 1
      [] status = "SUBMITTED" -> 2
      [] status = "RUNNING" -> 3
      [] status = "COMPLETE" -> 4

\* C36: under any sequence of set_EAR_submission_indices, set_EAR_start and
\* set_EAR_end operations and submission status changes, the derived status
\* of an EAR only moves forward along PENDING, PREPARED, SUBMITTED, RUNNING,
\* COMPLETE and never returns to an earlier state.
C36_StatusMovesForward ==
    [][\A r \in DOMAIN action_EARs :
          StatusRank(submission_status(action_EARs'[r], wk_submissions'))
              >= StatusRank(submission_status(action_EARs[r], wk_submissions))]_vars

---------------------------------------------------------------------------
\* Further properties of the grouping into jobscripts

\* the jobscripts of the grouping that hold the cell of action act and
\* element elem
JobscriptsOfCell(act, elem) ==
    {j \in DOMAIN jobscripts :
        /\ elem \in DOMAIN jobscripts[j].elements
        /\ act \in SeqRange(jobscripts[j].elements[elem])}

---------------------------------------------------------------------------
\* Part 9: a store resource (store_resource.py).  A document is a number: 0
\* is the empty document, which Python takes as false; the documents an open
\* resource holds are changed in place by the store.

MaxDoc == 2
MaxResOps == 6

\* bool(data): None and the empty document are false
Truthy(data) == data # None /\ data # 0

\* get_md5_hash: different documents have different hashes, and no hash is an
\* empty string
get_md5_hash(data) == data + 1

\* one more call of the resource
ResourceCall ==
    /\ sr_ops < MaxResOps /\ sr_ops' = sr_ops + 1
    /\ UNCHANGED << storeVars, earlierVars, depVars, runVars, retryVars, taskVars,
                    sourceVars >>

\* StoreResource.open(action): to read, a copy of the update data if there is
\* any, else what _load returns; to update, the read data itself if there is
\* any, else what _load returns; the hash is that of the data just opened
open(action) ==
    /\ ResourceCall
    /\ sr_data[action] = None
    /\ LET other == IF action = "read" THEN sr_data.update ELSE sr_data.read
           data  == IF Truthy(other) THEN other ELSE sr_file
       IN /\ sr_data' = [sr_data EXCEPT ![action] = data]
          /\ sr_same' = (action = "update" /\ Truthy(other))
          /\ sr_hash' = get_md5_hash(data)
          /\ sr_hist' = IF action = "update" THEN [sr_hist EXCEPT !.opened = data]
                        ELSE sr_hist
    /\ UNCHANGED sr_file

\* the store changes the document it holds for action, in place
ChangeData(action, data) ==
    /\ ResourceCall
    /\ sr_data[action] # None /\ sr_data[action] # data
    /\ sr_data' = IF sr_same THEN [read |-> data, update |-> data]
                  ELSE [sr_data EXCEPT ![action] = data]
    /\ UNCHANGED << sr_file, sr_same, sr_hash, sr_hist >>

\* close("update"): _dump unless the hash of the data is StoreResource.hash
dumps(data) == ~(sr_hash # None) \/ sr_hash # get_md5_hash(data)

\* StoreResource.close(action)
close(action) ==
    /\ ResourceCall
    /\ sr_data[action] # None
    /\ IF action = "update"
       THEN /\ sr_file' = IF dumps(sr_data.update) THEN sr_data.update ELSE sr_file
            /\ sr_hist' = [sr_hist EXCEPT
                              !.closed = IF dumps(sr_data.update) THEN "dumped"
                                         ELSE "kept"]
       ELSE UNCHANGED << sr_file, sr_hist >>
    /\ sr_data' = [sr_data EXCEPT ![action] = None]
    /\ sr_same' = FALSE
    /\ UNCHANGED sr_hash

\* a new StoreResource on a resource that holds some document
InitResource ==
    /\ StoreInit /\ backend = "json" /\ ResolveIdle /\ CacheIdle /\ JSIdle /\ PairIdle
    /\ CreateIdle /\ DepIdle /\ RunIdle /\ RetryIdle /\ TaskIdle /\ SourceIdle
    /\ sr_file \in 0..MaxDoc
    /\ sr_data = [read |-> None, update |-> None]
    /\ sr_same = FALSE
    /\ sr_hash = None
    /\ sr_hist = [opened |-> None, closed |-> "none"]
    /\ sr_ops = 0

ResourceNext ==
    \/ \E action \in {"read", "update"} : open(action)
    \/ \E action \in {"read", "update"}, data \in 0..MaxDoc : ChangeData(action, data)
    \/ \E action \in {"read", "update"} : close(action)

SpecResource == InitResource /\ [][ResourceNext]_vars

---------------------------------------------------------------------------
\* Part 9: the retried file-system operations of the stores.  An operation
\* is a function under the decorator dropbox_permission_err_retry; the file
\* system (with a sync client at work on the directory) decides whether a
\* call raises PermissionError, and whether the directory is there again after
\* it was removed.

\* retry(..., tries=10, delay=1, backoff=2)
Tries == 10
Delay == 1
Backoff == 2

MaxCalls == 12

FsOps == {"dump", "unlink", "rmtree"}

\* the rest of the model stays as it is
FsFrame == UNCHANGED << storeVars, earlierVars, depVars, runVars, resVars, taskVars,
                        sourceVars >>

\* the decorated function is called: _tries, _delay = tries, delay.  The Zarr
\* store deletes a directory tree, the JSON store dumps and unlinks a file.
FsStart(op) ==
    /\ fs_pc = "ready" /\ fs_op = "none"
    /\ backend = "zarr" <=> op = "rmtree"
    /\ fs_op' = op
    /\ fs_tries' = Tries /\ fs_delay' = Delay
    /\ fs_calls' = 0
    /\ fs_pc' = "try"
    /\ UNCHANGED fs_dir /\ FsFrame

\* _dump_to_path (JSON): open and json.dump return
DumpReturns ==
    /\ fs_pc = "try" /\ fs_op = "dump"
    /\ fs_calls' = fs_calls + 1
    /\ fs_pc' = "done"
    /\ UNCHANGED << fs_op, fs_tries, fs_delay, fs_dir >> /\ FsFrame

\* delete_no_confirm (JSON): self.path.unlink() returns
UnlinkReturns ==
    /\ fs_pc = "try" /\ fs_op = "unlink"
    /\ fs_calls' = fs_calls + 1
    /\ fs_dir' = FALSE
    /\ fs_pc' = "done"
    /\ UNCHANGED << fs_op, fs_tries, fs_delay >> /\ FsFrame

\* delete_no_confirm (Zarr): `while self.workflow.path.is_dir()` is false
LoopEnds ==
    /\ fs_pc = "try" /\ fs_op = "rmtree"
    /\ ~fs_dir
    /\ fs_pc' = "done"
    /\ UNCHANGED << fs_op, fs_tries, fs_delay, fs_calls, fs_dir >> /\ FsFrame

\* delete_no_confirm (Zarr): the directory is there, shutil.rmtree returns,
\* and after the sleep of half a second the directory is gone or is there
\* again (synced back); the loop tests again
RmtreeReturns(back) ==
    /\ fs_pc = "try" /\ fs_op = "rmtree"
    /\ fs_dir
    /\ fs_calls < MaxCalls
    /\ fs_calls' = fs_calls + 1
    /\ fs_dir' = back
    /\ UNCHANGED << fs_op, fs_tries, fs_delay, fs_pc >> /\ FsFrame

\* the call raises PermissionError or OSError: one attempt less; the error is
\* raised when none is left, else the decorator sleeps _delay and multiplies
\* it by backoff
CallRaises ==
    /\ fs_pc = "try"
    /\ fs_op = "rmtree" => fs_dir
    /\ fs_calls < MaxCalls
    /\ fs_calls' = fs_calls + 1
    /\ fs_tries' = fs_tries - 1
    /\ IF fs_tries - 1 = 0
       THEN fs_pc' = "fatal" /\ UNCHANGED fs_delay
       ELSE fs_pc' = "try" /\ fs_delay' = fs_delay * Backoff
    /\ UNCHANGED << fs_op, fs_dir >> /\ FsFrame

\* the caller goes on after the operation has returned, or ends with the
\* error it raised
FsEnd ==
    /\ fs_pc \in {"done", "fatal"}
    /\ fs_pc' = IF fs_pc = "done" THEN "returned" ELSE "raised"
    /\ UNCHANGED << fs_op, fs_tries, fs_delay, fs_calls, fs_dir >> /\ FsFrame

\* a store whose workflow is on disk
InitRetry ==
    /\ StoreInit /\ ResolveIdle /\ CacheIdle /\ JSIdle /\ PairIdle
    /\ CreateIdle /\ DepIdle /\ RunIdle /\ ResIdle /\ TaskIdle /\ SourceIdle
    /\ fs_op = "none" /\ fs_tries = 0 /\ fs_delay = 0 /\ fs_calls = 0
    /\ fs_dir = TRUE
    /\ fs_pc = "ready"

RetryNext ==
    \/ \E op \in FsOps : FsStart(op)
    \/ DumpReturns
    \/ UnlinkReturns
    \/ LoopEnds
    \/ \E back \in BOOLEAN : RmtreeReturns(back)
    \/ CallRaises
    \/ FsEnd

SpecRetry == InitRetry /\ [][RetryNext]_vars

\* C31: every store file-system operation that may transiently fail is
\* retried for at most a bounded number of attempts, after which the error
\* surfaces as fatal: no operation, the deletion of a workflow directory
\* included, makes more file-system calls than the decorator has tries.
C31_BoundedAttempts ==
    /\ fs_calls <= Tries
    /\ (fs_pc = "try" => fs_tries > 0)

\* C40: close("update") writes the data to the backing resource if and only
\* if the data differs from what it was when open("update") was called,
\* whatever open("read") and close("read") calls came in between.
C40_WritesIffChanged ==
    [][close("update") =>
          ((sr_hist'.closed = "dumped") <=> (sr_data.update # sr_hist.opened))]_vars

---------------------------------------------------------------------------
\* Part 9: tasks added at given indices (Workflow._add_empty_task).  The
\* store keeps the tasks of a batch in a dict from the index they were added
\* at; a dict is a sequence of (key, value) items in the order the keys were
\* first put.

MaxInserts == 3

\* d[key] = value on a dict: the value of a key that is there is replaced where
\* it stands, a new key goes to the end
DictPut(items, key, value) ==
    IF \E k \in DOMAIN items : items[k].key = key
    THEN [k \in DOMAIN items |->
             IF items[k].key = key THEN [key |-> key, value |-> value] ELSE items[k]]
    ELSE Append(items, [key |-> key, value |-> value])

\* the rest of the model stays as it is
TaskFrame == UNCHANGED << storeVars, earlierVars, depVars, runVars, resVars, retryVars,
                          sourceVars >>

\* entering `with batch_update()` on a workflow with nothing pending
BeginBatch ==
    /\ tk_pc = "ready"
    /\ tk_pc' = "batch"
    /\ UNCHANGED << tk_tasks, tk_pending, tk_store_pending, tk_disk, tk_added, tk_made >>
    /\ TaskFrame

\* PersistentStore.add_empty_task(task_idx, task_js)
store_add_empty_task(pending, task_idx, task_js) == DictPut(pending, task_idx, task_js)

\* Workflow._add_empty_task(task, new_index); index stands for new_index, None
\* for an append
add_empty_task_at(index) ==
    /\ tk_pc = "batch"
    /\ tk_made < MaxInserts
    /\ index = None \/ index \in 0..Len(tk_tasks)
    /\ LET new_index == IF index = None THEN Len(tk_tasks) ELSE index
           insert_ID == tk_disk.num_added_tasks + Len(tk_store_pending)
           task      == [id |-> tk_made, insert_ID |-> insert_ID]
       IN /\ tk_tasks' = ListInsert(tk_tasks, new_index, task)
          /\ tk_store_pending' = store_add_empty_task(tk_store_pending, new_index, task)
          /\ tk_pending' = Append(tk_pending, new_index)
    /\ tk_made' = tk_made + 1
    /\ UNCHANGED << tk_disk, tk_added, tk_pc >>
    /\ TaskFrame

\* commit_pending: for new_index, wk_task in self._pending["tasks"].items():
\* wk_data["tasks"].insert(new_index, wk_task); wk_data["num_added_tasks"] += 1
RECURSIVE CommitTasks(_, _)
CommitTasks(doc, items) ==
    IF items = << >> THEN doc
    ELSE CommitTasks([tasks |-> ListInsert(doc.tasks, Head(items).key,
                                           Head(items).value),
                      num_added_tasks |-> doc.num_added_tasks + 1],
                     Tail(items))

\* the batch ends normally: commit_pending, then _accept_pending
CommitBatch ==
    /\ tk_pc = "batch"
    /\ tk_disk' = CommitTasks(tk_disk, tk_store_pending)
    /\ tk_added' = tk_added + Len(tk_pending)
    /\ tk_store_pending' = << >>
    /\ tk_pending' = << >>
    /\ tk_pc' = "ready"
    /\ UNCHANGED << tk_tasks, tk_made >>
    /\ TaskFrame

\* _reject_pending: the pending tasks removed, last added first
RECURSIVE PopTasks(_, _)
PopTasks(tasks, idxs) ==
    IF idxs = << >> THEN tasks
    ELSE PopTasks(ListPop(tasks, idxs[Len(idxs)]), SubSeq(idxs, 1, Len(idxs) - 1))

\* the batch ends by an exception: reject_pending of the store, _reject_pending
RejectBatch ==
    /\ tk_pc = "batch"
    /\ tk_tasks' = PopTasks(tk_tasks, tk_pending)
    /\ tk_store_pending' = << >>
    /\ tk_pending' = << >>
    /\ tk_pc' = "ready"
    /\ UNCHANGED << tk_disk, tk_added, tk_made >>
    /\ TaskFrame

\* a new workflow with no tasks
InitTasks ==
    /\ StoreInit /\ ResolveIdle /\ CacheIdle /\ JSIdle /\ PairIdle
    /\ CreateIdle /\ DepIdle /\ RunIdle /\ ResIdle /\ RetryIdle /\ SourceIdle
    /\ tk_tasks = << >> /\ tk_pending = << >> /\ tk_store_pending = << >>
    /\ tk_disk = [tasks |-> << >>, num_added_tasks |-> 0]
    /\ tk_added = 0 /\ tk_made = 0
    /\ tk_pc = "ready"

TasksNext ==
    \/ BeginBatch
    \/ \E index \in {None} \cup 0..(MaxInserts - 1) : add_empty_task_at(index)
    \/ CommitBatch
    \/ RejectBatch

SpecTasks == InitTasks /\ [][TasksNext]_vars

\* C33: after a successful batch of add_task calls (appends, insertions at
\* given indices, repeated insertions at one index) the task list on disk has
\* the same tasks in the same order as the workflow in memory, and the
\* persisted count of added tasks is the number of tasks ever added.
C33_TasksOnDiskAsInMemory ==
    tk_pc = "ready" =>
        /\ tk_disk.tasks = tk_tasks
        /\ tk_disk.num_added_tasks = tk_added

---------------------------------------------------------------------------
\* Part 9: the parameter sources of the JSON store (json.py).  One process
\* works on the workflow; nothing else writes the file.  A source is a dict
\* with the keys type and EAR_ID; a patch gives EAR_ID a value.  The cached
\* document is an object that the readers share.

MaxSources == 2
MaxSourceOps == 5

EARIDs == {None, 0, 1}

NoSourcesPending == [parameter_sources |-> << >>, parameter_source_updates |-> << >>]

\* the rest of the model stays as it is, and one more call is made
SourceCall ==
    /\ ps_ops < MaxSourceOps /\ ps_ops' = ps_ops + 1
    /\ UNCHANGED << storeVars, earlierVars, depVars, runVars, resVars, retryVars,
                    taskVars >>

\* load(): self._loaded or self._load()
ps_load == IF ps_loaded # << >> THEN ps_loaded[1] ELSE ps_disk

\* `with cached_load(): with batch_update():` when cached, batch_update alone
\* otherwise
EnterBatch(cached) ==
    /\ SourceCall
    /\ ps_pc = "ready"
    /\ ps_loaded' = IF cached THEN << ps_disk >> ELSE << >>
    /\ ps_pc' = "batch"
    /\ UNCHANGED << ps_disk, ps_pending, ps_err >>

\* _add_parameter_data: the source of a new parameter is buffered
AddParameterSource(EAR_ID) ==
    /\ SourceCall
    /\ ps_pc = "batch"
    /\ Len(ps_load) + Cardinality(DOMAIN ps_pending.parameter_sources) < MaxSources
    /\ LET idx == Len(ps_load) + Cardinality(DOMAIN ps_pending.parameter_sources)
       IN ps_pending' = [ps_pending EXCEPT
             !.parameter_sources =
                 DictSet(@, idx, [type |-> "EAR_output", EAR_ID |-> EAR_ID])]
    /\ UNCHANGED << ps_disk, ps_loaded, ps_err, ps_pc >>

\* PersistentStore.update_param_source(param_idx, src_update): the patch is
\* buffered
update_param_source(index, EAR_ID) ==
    /\ SourceCall
    /\ ps_pc = "batch"
    /\ index < Len(ps_load) \/ index \in DOMAIN ps_pending.parameter_sources
    /\ ps_pending' = [ps_pending EXCEPT
          !.parameter_source_updates = DictSet(@, index, [EAR_ID |-> EAR_ID])]
    /\ UNCHANGED << ps_disk, ps_loaded, ps_err, ps_pc >>

\* src.update(...): the dict src itself is changed
Updated(src, src_update) == [src EXCEPT !.EAR_ID = src_update.EAR_ID]

\* get_parameter_source(index): src is the pending source or the entry of the
\* loaded document - the objects themselves, not copies - and a pending patch
\* is applied to it
get_parameter_source(index) ==
    /\ SourceCall
    /\ ps_pc = "batch"
    /\ index < Len(ps_load) \/ index \in DOMAIN ps_pending.parameter_sources
    /\ IF index \notin DOMAIN ps_pending.parameter_source_updates
       THEN UNCHANGED << ps_pending, ps_loaded >>
       ELSE LET src_update == ps_pending.parameter_source_updates[index]
            IN IF index \in DOMAIN ps_pending.parameter_sources
               THEN /\ ps_pending' = [ps_pending EXCEPT
                          !.parameter_sources[index] = Updated(@, src_update)]
                    /\ UNCHANGED ps_loaded
               ELSE /\ ps_loaded' =
                          IF ps_loaded # << >>
                          THEN [ps_loaded EXCEPT ![1][index + 1] = Updated(@, src_update)]
                          ELSE ps_loaded
                    /\ UNCHANGED ps_pending
    /\ UNCHANGED << ps_disk, ps_err, ps_pc >>

\* is_modified_on_disk of this part's document
sources_modified_on_disk ==
    IF ps_loaded # << >> THEN ps_disk # ps_loaded[1] ELSE FALSE

\* commit_pending: the new sources put into the document, then the patches
\* applied
SourcesCommitted(doc, pending) ==
    LET n == Len(doc) + Cardinality(DOMAIN pending.parameter_sources)
        with_new == [k \in 1..n |-> IF k <= Len(doc) THEN doc[k]
                                    ELSE pending.parameter_sources[k - 1]]
    IN [k \in 1..n |->
           IF (k - 1) \in DOMAIN pending.parameter_source_updates
           THEN Updated(with_new[k], pending.parameter_source_updates[k - 1])
           ELSE with_new[k]]

\* the batch ends normally: with something pending, the commit is refused if
\* is_modified_on_disk() and carried out otherwise
ExitBatch ==
    /\ SourceCall
    /\ ps_pc = "batch"
    /\ IF ps_pending = NoSourcesPending
       THEN /\ ps_err' = "exit_empty" /\ ps_pc' = "ready"
            /\ UNCHANGED << ps_disk, ps_pending >>
       ELSE IF sources_modified_on_disk
       THEN /\ ps_err' = "WorkflowBatchUpdateFailedError" /\ ps_pc' = "failed"
            /\ UNCHANGED << ps_disk, ps_pending >>
       ELSE /\ ps_disk' = SourcesCommitted(ps_load, ps_pending)
            /\ ps_pending' = NoSourcesPending
            /\ ps_err' = "committed" /\ ps_pc' = "ready"
    /\ ps_loaded' = << >>

\* a workflow on disk with one or more parameters, loaded by one process
InitSources ==
    /\ StoreInit /\ backend = "json" /\ ResolveIdle /\ CacheIdle /\ JSIdle /\ PairIdle
    /\ CreateIdle /\ DepIdle /\ RunIdle /\ ResIdle /\ RetryIdle /\ TaskIdle
    /\ \E n \in 1..MaxSources :
          ps_disk \in [1..n -> [type : {"EAR_output"}, EAR_ID : EARIDs]]
    /\ ps_loaded = << >>
    /\ ps_pending = NoSourcesPending
    /\ ps_err = "none"
    /\ ps_ops = 0
    /\ ps_pc = "ready"

SourcesNext ==
    \/ \E cached \in BOOLEAN : EnterBatch(cached)
    \/ \E EAR_ID \in EARIDs : AddParameterSource(EAR_ID)
    \/ \E index \in 0..(MaxSources - 1), EAR_ID \in EARIDs \ {None} :
          update_param_source(index, EAR_ID)
    \/ \E index \in 0..(MaxSources - 1) : get_parameter_source(index)
    \/ ExitBatch

SpecSources == InitSources /\ [][SourcesNext]_vars

\* C35: if no other process modifies the workflow on disk between load and
\* commit, committing a batch never raises WorkflowBatchUpdateFailedError,
\* whatever reads and buffered mutations (parameter-source patches followed by
\* source reads included) the batch made on the cached document.
C35_NoConflictWithoutOtherWriter ==
    ps_err # "WorkflowBatchUpdateFailedError"

====
